---------------------------- MODULE Spec2Model ----------------------------
(***************************************************************************)
(* A model of the subtitle engine of serika-dev-player                     *)
(* (src/src/utils/subtitleParser.ts).  Documents are character strings;   *)
(* every parsing step is computed on the characters as the code computes  *)
(* it.  Times are integers in milliseconds (the code's seconds * 1000);   *)
(* a number is a record [nan, ms] so that NaN is a value of its own.      *)
(* Let(v, LAMBDA x : e) is e with x bound to the value v, which is        *)
(* computed once: the code's `const x = v`.                               *)
(***************************************************************************)
EXTENDS Integers, Sequences, FiniteSets, TLC

(***************************************************************************)
(* Strings: the methods of String.prototype and the character classes of  *)
(* the regular expressions the parser uses.                               *)
(***************************************************************************)
Let(v, Body(_)) == Body(v)

Min(S) == CHOOSE i \in S : \A j \in S : i <= j

\* The greatest element, as the least of the negated elements.
Max(S) == -Min({-i : i \in S})

\* The least element of a set of positions, 0 when it is empty (no match).
MinOrZero(S) == IF S = {} THEN 0 ELSE Min(S)

\* s[i - 1] of the code, "" outside the string.
Char(s, i) == IF i >= 1 /\ i <= Len(s) THEN SubSeq(s, i, i) ELSE ""

\* Whether `sub` occurs in s at position i.
At(s, i, sub) == i >= 1 /\ i + Len(sub) - 1 <= Len(s) /\ SubSeq(s, i, i + Len(sub) - 1) = sub

StrFrom(s, i) == SubSeq(s, i, Len(s))

\* \s, for the white space the documents hold
IsSpace(c) == c \in {" ", "\n", "\t", "\r"}

\* \d
IsDigit(c) == c \in {"0", "1", "2", "3", "4", "5", "6", "7", "8", "9"}

DigitVal(c) ==
    CASE c = "0" -> 0 [] c = "1" -> 1 [] c = "2" -> 2 [] c = "3" -> 3
      [] c = "4" -> 4 [] c = "5" -> 5 [] c = "6" -> 6 [] c = "7" -> 7
      [] c = "8" -> 8 [] c = "9" -> 9

\* The lower-case letter of each upper-case letter.
LowerOf ==
    [c \in {"A", "B", "C", "D", "E", "F", "G", "H", "I", "J", "K", "L", "M",
            "N", "O", "P", "Q", "R", "S", "T", "U", "V", "W", "X", "Y", "Z"} |->
        CASE c = "A" -> "a" [] c = "B" -> "b" [] c = "C" -> "c" [] c = "D" -> "d"
          [] c = "E" -> "e" [] c = "F" -> "f" [] c = "G" -> "g" [] c = "H" -> "h"
          [] c = "I" -> "i" [] c = "J" -> "j" [] c = "K" -> "k" [] c = "L" -> "l"
          [] c = "M" -> "m" [] c = "N" -> "n" [] c = "O" -> "o" [] c = "P" -> "p"
          [] c = "Q" -> "q" [] c = "R" -> "r" [] c = "S" -> "s" [] c = "T" -> "t"
          [] c = "U" -> "u" [] c = "V" -> "v" [] c = "W" -> "w" [] c = "X" -> "x"
          [] c = "Y" -> "y" [] c = "Z" -> "z"]

\* A character in lower case: a letter's lower-case letter, any other
\* character as it is.
LowerChar(c) == IF c \in DOMAIN LowerOf THEN LowerOf[c] ELSE c

\* The letters, lower case and upper case.
Letters == DOMAIN LowerOf \cup {LowerOf[c] : c \in DOMAIN LowerOf}

\* [a-zA-Z0-9]
IsAlnum(c) == IsDigit(c) \/ c \in Letters

\* \w
IsWordChar(c) == IsAlnum(c) \/ c = "_"

RECURSIVE ToLowerCase(_)
ToLowerCase(s) == IF s = "" THEN "" ELSE LowerChar(Head(s)) \o ToLowerCase(Tail(s))

StartsWith(s, p) == At(s, 1, p)

EndsWith(s, p) == At(s, Len(s) - Len(p) + 1, p)

\* String.prototype.indexOf from position `from` (1-based); 0 when absent.
IndexOfFrom(s, sub, from) ==
    MinOrZero({i \in from..(Len(s) - Len(sub) + 1) : At(s, i, sub)})

IndexOf(s, sub) == IndexOfFrom(s, sub, 1)

Includes(s, sub) == \E i \in 1..(Len(s) - Len(sub) + 1) : At(s, i, sub)

Trim(s) ==
    Let({i \in 1..Len(s) : ~IsSpace(Char(s, i))}, LAMBDA keep :
        IF keep = {} THEN "" ELSE SubSeq(s, Min(keep), Max(keep)))

\* String.prototype.split(sep) for a non-empty literal separator.
RECURSIVE Split(_, _)
Split(s, sep) ==
    Let(IndexOf(s, sep), LAMBDA i :
        IF i = 0 THEN <<s>>
        ELSE <<SubSeq(s, 1, i - 1)>> \o Split(StrFrom(s, i + Len(sep)), sep))

\* String.prototype.replace(/from/g, to) for a literal pattern.
RECURSIVE ReplaceAll(_, _, _)
ReplaceAll(s, from, to) ==
    Let(IndexOf(s, from), LAMBDA i :
        IF i = 0 THEN s
        ELSE SubSeq(s, 1, i - 1) \o to \o ReplaceAll(StrFrom(s, i + Len(from)), from, to))

\* String.prototype.replace(from, to) with a string pattern: first occurrence only.
ReplaceFirst(s, from, to) ==
    Let(IndexOf(s, from), LAMBDA i :
        IF i = 0 THEN s ELSE SubSeq(s, 1, i - 1) \o to \o StrFrom(s, i + Len(from)))

\* Array.prototype.join
RECURSIVE Join(_, _)
Join(parts, sep) ==
    IF Len(parts) = 0 THEN ""
    ELSE IF Len(parts) = 1 THEN parts[1]
    ELSE parts[1] \o sep \o Join(Tail(parts), sep)

\* Array.prototype.filter(Boolean) on strings
RECURSIVE FilterNonEmpty(_)
FilterNonEmpty(xs) ==
    IF Len(xs) = 0 THEN <<>>
    ELSE IF Head(xs) = "" THEN FilterNonEmpty(Tail(xs))
    ELSE <<Head(xs)>> \o FilterNonEmpty(Tail(xs))

\* lines.map(line => line.trim())
TrimAll(xs) == [i \in 1..Len(xs) |-> Trim(xs[i])]

\* The first position >= i of s that is not white space (Len(s) + 1 if none): \s*
RECURSIVE SkipSpaces(_, _)
SkipSpaces(s, i) ==
    IF i <= Len(s) /\ IsSpace(Char(s, i)) THEN SkipSpaces(s, i + 1) ELSE i

\* The end of the run of non-space characters starting at i (i - 1 when empty): [^\s]+
RECURSIVE RunEnd(_, _)
RunEnd(s, i) ==
    IF i <= Len(s) /\ ~IsSpace(Char(s, i)) THEN RunEnd(s, i + 1) ELSE i - 1

\* The start of the run of non-space characters that ends at e.
RECURSIVE RunStart(_, _)
RunStart(s, e) ==
    IF e > 1 /\ ~IsSpace(Char(s, e - 1)) THEN RunStart(s, e - 1) ELSE e

\* The end of the run of digits starting at i (i - 1 when empty): \d+
RECURSIVE DigitRunEnd(_, _)
DigitRunEnd(s, i) == IF IsDigit(Char(s, i)) THEN DigitRunEnd(s, i + 1) ELSE i - 1

\* The start of the run of digits that ends at position e.
RECURSIVE DigitRunStart(_, _)
DigitRunStart(t, e) ==
    IF e > 1 /\ IsDigit(Char(t, e - 1)) THEN DigitRunStart(t, e - 1) ELSE e

(***************************************************************************)
(* Numbers.  A JavaScript number is [nan, ms]: ms is the value times 1000  *)
(* (three decimals are kept, which is what the timestamps of the inputs   *)
(* carry).  Number() is modelled for decimal literals with an optional    *)
(* sign; the inputs hold no exponent, hex or Infinity literal.            *)
(***************************************************************************)
Undefined == "undefined"

NaN == [nan |-> TRUE, ms |-> 0]

Num(n) == [nan |-> FALSE, ms |-> n]

NumAdd(a, b) == IF a.nan \/ b.nan THEN NaN ELSE Num(a.ms + b.ms)

NumScale(a, k) == IF a.nan THEN NaN ELSE Num(a.ms * k)

\* a <= b as JavaScript evaluates it: false when either side is NaN.
NumLe(a, b) == ~a.nan /\ ~b.nan /\ a.ms <= b.ms

RECURSIVE DigitsValue(_, _)
DigitsValue(s, acc) ==
    IF s = "" THEN acc ELSE DigitsValue(Tail(s), acc * 10 + DigitVal(Head(s)))

\* The value of <integer digits>.<fraction digits>, either part possibly empty;
\* the fraction is kept to thousandths.
DecimalValue(ip, fp) ==
    IF (\E i \in 1..Len(ip) : ~IsDigit(Char(ip, i)))
       \/ (\E i \in 1..Len(fp) : ~IsDigit(Char(fp, i)))
       \/ (ip = "" /\ fp = "")
    THEN NaN
    ELSE Num(DigitsValue(ip, 0) * 1000 + 100 * DigitsValue(Char(fp, 1), 0)
                 + 10 * DigitsValue(Char(fp, 2), 0) + DigitsValue(Char(fp, 3), 0))

\* Number(str) for an unsigned decimal literal: digits, digits., digits.digits, .digits
UnsignedNumber(t) ==
    Let(IndexOf(t, "."), LAMBDA dot :
        IF t = "" THEN NaN
        ELSE IF dot = 0 THEN DecimalValue(t, "")
        ELSE DecimalValue(SubSeq(t, 1, dot - 1), StrFrom(t, dot + 1)))

\* Number(str): white space trimmed, "" is 0, an optional sign, else NaN.
Number(str) ==
    Let(Trim(str), LAMBDA t :
        IF t = "" THEN Num(0)
        ELSE IF Head(t) = "-" THEN NumScale(UnsignedNumber(Tail(t)), -1)
        ELSE IF Head(t) = "+" THEN UnsignedNumber(Tail(t))
        ELSE UnsignedNumber(t))

\* str.split(/[\s]/)[0]
BeforeSpace(s) ==
    SubSeq(s, 1, Min({i \in 1..(Len(s) + 1) : i = Len(s) + 1 \/ IsSpace(Char(s, i))}) - 1)

\* x || 0 for a number
NumOrZero(x) == IF x.nan THEN Num(0) ELSE x

parseFlexibleTimeString(timeStr) ==
    Let(BeforeSpace(ReplaceFirst(timeStr, ",", ".")), LAMBDA cleaned :
    Let(Split(cleaned, ":"), LAMBDA parts :
        IF Len(parts) = 3
        THEN NumAdd(NumAdd(NumScale(Number(parts[1]), 3600), NumScale(Number(parts[2]), 60)),
                    Number(parts[3]))
        ELSE IF Len(parts) = 2
        THEN NumAdd(NumScale(Number(parts[1]), 60), Number(parts[2]))
        ELSE NumOrZero(Number(cleaned))))

\* Number(value) / 1000 seconds, i.e. Number(value) milliseconds.
parseMillisecondsString(value) ==
    Let(Number(value), LAMBDA numeric :
        IF numeric.nan THEN Num(0) ELSE Num(numeric.ms \div 1000))

\* The positions q of a ':' that follows a digit and starts ":dd:dd.dd".
ASSTimeColons(t) ==
    {q \in 2..(Len(t) - 8) :
        /\ IsDigit(Char(t, q - 1))
        /\ Char(t, q) = ":" /\ IsDigit(Char(t, q + 1)) /\ IsDigit(Char(t, q + 2))
        /\ Char(t, q + 3) = ":" /\ IsDigit(Char(t, q + 4)) /\ IsDigit(Char(t, q + 5))
        /\ Char(t, q + 6) = "." /\ IsDigit(Char(t, q + 7)) /\ IsDigit(Char(t, q + 8))}

\* time.trim().match(/(\d+):(\d{2}):(\d{2})\.(\d{2})/): the leftmost match, whose
\* first ':' is at q; hours * 3600 + minutes * 60 + seconds + centiseconds / 100.
parseASSTime(time) ==
    Let(Trim(time), LAMBDA t :
    Let(MinOrZero(ASSTimeColons(t)), LAMBDA q :
        IF q = 0 THEN Num(0)
        ELSE Num((DigitsValue(SubSeq(t, DigitRunStart(t, q - 1), q - 1), 0) * 3600
                  + DigitsValue(SubSeq(t, q + 1, q + 2), 0) * 60
                  + DigitsValue(SubSeq(t, q + 4, q + 5), 0)) * 1000
                 + DigitsValue(SubSeq(t, q + 7, q + 8), 0) * 10)))

\* null, the result of a match that fails
NoMatch == <<>>

\* The ends e of a first group of /([^\s]+)\s*-->\s*([^\s]+)/: a non-space
\* character after which, white space skipped, comes "-->" and then, white space
\* skipped, a non-space character.
ArrowGroupEnds(s) ==
    {e \in 1..Len(s) :
        /\ ~IsSpace(Char(s, e))
        /\ At(s, SkipSpaces(s, e + 1), "-->")
        /\ SkipSpaces(s, SkipSpaces(s, e + 1) + 3) <= Len(s)}

\* timeLine.match(/([^\s]+)\s*-->\s*([^\s]+)/) as <<group 1, group 2>>: the match
\* starts leftmost (at p), its first group is the longest (to e), its second
\* group is the run of non-space characters at r.
TimeMatch(s) ==
    Let(ArrowGroupEnds(s), LAMBDA ends :
        IF ends = {} THEN NoMatch
        ELSE Let(Min({RunStart(s, e) : e \in ends}), LAMBDA p :
             Let(Max({e \in ends : RunStart(s, e) = p}), LAMBDA e :
             Let(SkipSpaces(s, SkipSpaces(s, e + 1) + 3), LAMBDA r :
                 <<SubSeq(s, p, e), SubSeq(s, r, RunEnd(s, r))>>))))

(***************************************************************************)
(* Styles, segments and lines.  A style is a record of all the fields the  *)
(* parser sets; an absent field is Undefined.  A segment is [text, style], *)
(* a line a sequence of segments.                                          *)
(***************************************************************************)
EmptyStyle ==
    [fontFamily |-> Undefined, fontSize |-> Undefined, color |-> Undefined,
     backgroundColor |-> Undefined, fontWeight |-> Undefined, fontStyle |-> Undefined,
     textDecoration |-> Undefined, transform |-> Undefined, display |-> Undefined]

\* The value the module-level constant DEFAULT_STYLE is created with.
BuiltInDefaultStyle == [EmptyStyle EXCEPT !.fontWeight = "normal", !.fontStyle = "normal"]

\* { ...a, ...b }: the fields b defines override those of a.
Overlay(a, b) == [f \in DOMAIN a |-> IF b[f] # Undefined THEN b[f] ELSE a[f]]

\* JavaScript truthiness of a string that may be undefined.
Truthy(v) == v # Undefined /\ v # ""

\* a || b for strings
OrElse(a, b) == IF Truthy(a) THEN a ELSE b

buildTextDecoration(underline, strike) ==
    Trim(Join(FilterNonEmpty(<<IF underline THEN "underline" ELSE "",
                               IF strike THEN "line-through" ELSE "">>), " "))

\* style.textDecoration?.includes(word) ?? false
HasDecoration(style, word) ==
    style.textDecoration # Undefined /\ Includes(style.textDecoration, word)

decodeEntities(text) ==
    ReplaceAll(ReplaceAll(ReplaceAll(ReplaceAll(ReplaceAll(text,
        "&lt;", "<"), "&gt;", ">"), "&amp;", "&"), "&quot;", "\""), "&#39;", "'")

\* line.filter(segment => segment.text.length > 0)
RECURSIVE FilterSegments(_)
FilterSegments(line) ==
    IF Len(line) = 0 THEN <<>>
    ELSE IF Len(Head(line).text) > 0 THEN <<Head(line)>> \o FilterSegments(Tail(line))
    ELSE FilterSegments(Tail(line))

\* .filter((line, index, arr) => line.length > 0 || (index > 0 && index < arr.length - 1))
RECURSIVE KeepLines(_, _)
KeepLines(arr, index) ==
    IF index > Len(arr) THEN <<>>
    ELSE IF Len(arr[index]) > 0 \/ (index > 1 /\ index < Len(arr))
    THEN <<arr[index]>> \o KeepLines(arr, index + 1)
    ELSE KeepLines(arr, index + 1)

\* A pruning that keeps no empty line, interior or not.
pruneEveryEmptyLine(lines) ==
    SelectSeq([i \in 1..Len(lines) |-> FilterSegments(lines[i])], LAMBDA line : Len(line) > 0)

pruneLines(lines) == KeepLines([i \in 1..Len(lines) |-> FilterSegments(lines[i])], 1)

\* line.map(segment => segment.text).join('')
RECURSIVE LineText(_)
LineText(line) == IF Len(line) = 0 THEN "" ELSE Head(line).text \o LineText(Tail(line))

\* lines.map(line => ...).join('\n')
FlattenLines(lines) == Join([i \in 1..Len(lines) |-> LineText(lines[i])], "\n")

\* One part of a text token: a part that is not empty becomes a segment of the
\* last line.
PushPart(lines, part, style) ==
    IF part # ""
    THEN [lines EXCEPT ![Len(lines)] =
              Append(lines[Len(lines)], [text |-> part, style |-> style])]
    ELSE lines

\* The text-token step of both tokenizers, over text.split('\n'): each line
\* break opens a line.
RECURSIVE PushParts(_, _, _)
PushParts(lines, parts, style) ==
    IF Len(parts) = 1 THEN PushPart(lines, Head(parts), style)
    ELSE PushParts(Append(PushPart(lines, Head(parts), style), <<>>), Tail(parts), style)

(***************************************************************************)
(* parseXmlAttributes: the attributes as a sequence of <<name, value>>.    *)
(***************************************************************************)
\* /(\w+)=("([^"]*)"|'([^']*)')/g from position i on.  \w+ is greedy, so a
\* match can only start where a word starts and its name runs to the word's
\* end e; the value is quoted from e + 2 to `close`.
RECURSIVE ScanAttributes(_, _)
ScanAttributes(s, i) ==
    IF i > Len(s) THEN <<>>
    ELSE IF ~IsWordChar(Char(s, i)) THEN ScanAttributes(s, i + 1)
    ELSE Let(Max({e \in i..Len(s) : \A k \in i..e : IsWordChar(Char(s, k))}), LAMBDA e :
         Let(IF Char(s, e + 2) \in {"\"", "'"}
             THEN IndexOfFrom(s, Char(s, e + 2), e + 3) ELSE 0, LAMBDA close :
             IF Char(s, e + 1) = "=" /\ close # 0
             THEN <<(<<SubSeq(s, i, e), SubSeq(s, e + 3, close - 1)>>)>>
                      \o ScanAttributes(s, close + 1)
             ELSE ScanAttributes(s, e + 1)))

\* A character of the class of /\.([^\s>]+)/
IsClassChar(c) == c # "" /\ ~IsSpace(c) /\ c # ">"

\* attributesText.match(/\.([^\s>]+)/)?.[1]: the run after the first '.' that has one
ClassShorthand(attributesText) ==
    Let(MinOrZero({i \in 1..Len(attributesText) :
                      /\ Char(attributesText, i) = "."
                      /\ IsClassChar(Char(attributesText, i + 1))}), LAMBDA d :
        IF d = 0 THEN Undefined
        ELSE SubSeq(attributesText, d + 1,
                    Max({e \in (d + 1)..Len(attributesText) :
                            \A k \in (d + 1)..e : IsClassChar(Char(attributesText, k))})))

parseXmlAttributes(attributesText) ==
    Let(ScanAttributes(attributesText, 1), LAMBDA found :
    Let(ClassShorthand(attributesText), LAMBDA classAttr :
        \* !/\bclass=/.test(attributesText) && classAttr
        IF /\ ~\E i \in 1..Len(attributesText) :
                  /\ At(attributesText, i, "class=")
                  /\ ~IsWordChar(Char(attributesText, i - 1))
           /\ classAttr # Undefined
        THEN Append(found, <<"class", classAttr>>)
        ELSE found))

\* attrs[name]: the last assignment wins; Undefined when never assigned.
GetAttr(attrs, name) ==
    Let({i \in 1..Len(attrs) : attrs[i][1] = name}, LAMBDA at :
        IF at = {} THEN Undefined ELSE attrs[Max(at)][2])

(***************************************************************************)
(* The HTML-like dialect (WebVTT, SRT, YTT, SRV3 span bodies).             *)
(***************************************************************************)
\* className.split(/\s+/)
RECURSIVE SplitSpaces(_)
SplitSpaces(s) ==
    Let(Min({i \in 1..(Len(s) + 1) : i = Len(s) + 1 \/ IsSpace(Char(s, i))}), LAMBDA i :
        IF i > Len(s) THEN <<s>>
        ELSE <<SubSeq(s, 1, i - 1)>> \o SplitSpaces(StrFrom(s, SkipSpaces(s, i))))

\* classNameToStyle's loop over the classes
RECURSIVE ClassesToStyle(_, _)
ClassesToStyle(classes, style) ==
    IF Len(classes) = 0 THEN style
    ELSE ClassesToStyle(Tail(classes),
             [style EXCEPT
                 !.color = IF StartsWith(Head(classes), "c.")
                           THEN ReplaceAll(StrFrom(Head(classes), 3), "_", " ") ELSE @,
                 !.backgroundColor = IF StartsWith(Head(classes), "bg_")
                                     THEN ReplaceAll(StrFrom(Head(classes), 4), "_", " ")
                                     ELSE @])

classNameToStyle(className) == ClassesToStyle(SplitSpaces(className), EmptyStyle)

youtubeClassToStyle(styleClass) ==
    IF styleClass = "7" THEN [EmptyStyle EXCEPT !.fontWeight = "bold"]
    ELSE IF styleClass = "8" THEN [EmptyStyle EXCEPT !.fontStyle = "italic"]
    ELSE EmptyStyle

applyHtmlLikeStyle(baseStyle, tagName, attrs) ==
    Let(GetAttr(attrs, "color"), LAMBDA color :
    Let(GetAttr(attrs, "class"), LAMBDA class :
    Let([baseStyle EXCEPT
            !.fontWeight = IF tagName \in {"b", "strong"} THEN "bold" ELSE @,
            !.fontStyle = IF tagName \in {"i", "em"} THEN "italic" ELSE @,
            !.textDecoration =
                IF tagName = "u"
                THEN buildTextDecoration(TRUE, HasDecoration(baseStyle, "line-through"))
                ELSE @,
            !.color = IF tagName = "font" /\ Truthy(color) THEN color ELSE @], LAMBDA styled :
        IF tagName = "c" /\ Truthy(class) THEN Overlay(styled, classNameToStyle(class))
        ELSE styled)))

\* rawText.replace(/<br\s*\/?\s*>/gi, '\n')
\* Where /<br\s*\/?\s*>/i matching at the '<' at position i ends (0: no match).
BrEnd(s, i) ==
    IF ToLowerCase(Char(s, i + 1) \o Char(s, i + 2)) # "br" THEN 0
    ELSE Let(SkipSpaces(s, i + 3), LAMBDA j :
         Let(SkipSpaces(s, IF Char(s, j) = "/" THEN j + 1 ELSE j), LAMBDA k :
             IF Char(s, k) = ">" THEN k ELSE 0))

RECURSIVE ReplaceBreaks(_)
ReplaceBreaks(s) ==
    Let(IndexOf(s, "<"), LAMBDA i :
        IF i = 0 THEN s
        ELSE Let(BrEnd(s, i), LAMBDA end :
             IF end # 0 THEN SubSeq(s, 1, i - 1) \o "\n" \o ReplaceBreaks(StrFrom(s, end + 1))
             ELSE SubSeq(s, 1, i) \o ReplaceBreaks(StrFrom(s, i + 1))))

\* text.replace(/\{\\[^}]*\}/g, '')
RECURSIVE StripOverrideBlocks(_)
StripOverrideBlocks(s) ==
    Let(IndexOf(s, "{\\"), LAMBDA i :
        IF i = 0 THEN s
        ELSE Let(IndexOfFrom(s, "}", i + 2), LAMBDA j :
             IF j = 0 THEN s
             ELSE SubSeq(s, 1, i - 1) \o StripOverrideBlocks(StrFrom(s, j + 1))))

\* s.split(/(<[^>]+>)/g): texts and tags alternate; empty strings included.
RECURSIVE SplitTags(_)
SplitTags(s) ==
    Let(MinOrZero({i \in 1..Len(s) :
                      /\ Char(s, i) = "<"
                      /\ Char(s, i + 1) \notin {"", ">"}
                      /\ \E j \in (i + 2)..Len(s) : Char(s, j) = ">"}), LAMBDA i :
        IF i = 0 THEN <<s>>
        ELSE Let(IndexOfFrom(s, ">", i + 1), LAMBDA j :
             <<SubSeq(s, 1, i - 1), SubSeq(s, i, j)>> \o SplitTags(StrFrom(s, j + 1))))

\* token.match(/^<\/?([a-zA-Z0-9]+)([^>]*)>/) for a token that starts with '<'.
TagMatch(token) ==
    Let(IF Char(token, 2) = "/" THEN 3 ELSE 2, LAMBDA k :
    Let(Max({e \in (k - 1)..Len(token) : \A j \in k..e : IsAlnum(Char(token, j))}), LAMBDA e :
    Let(IndexOfFrom(token, ">", e + 1), LAMBDA gt :
        IF e < k \/ gt = 0 THEN NoMatch
        ELSE <<SubSeq(token, k, e), SubSeq(token, e + 1, gt - 1)>>)))

\* A closing tag that would reset the style instead of restoring it.
ResetStyle(st, dflt) == [st EXCEPT !.currentStyle = dflt]

\* currentStyle = styleStack.pop() ?? { ...DEFAULT_STYLE }
PopStyle(st, dflt) ==
    IF Len(st.styleStack) > 0
    THEN [st EXCEPT !.currentStyle = st.styleStack[Len(st.styleStack)],
                    !.styleStack = SubSeq(st.styleStack, 1, Len(st.styleStack) - 1)]
    ELSE [st EXCEPT !.currentStyle = dflt]

\* A loop body whose opening tag would change the style without pushing it.
TokenStepWithoutPush(st, token, dflt) ==
    IF ~StartsWith(token, "<")
    THEN [st EXCEPT !.lines = PushParts(st.lines, Split(decodeEntities(token), "\n"),
                                        st.currentStyle)]
    ELSE Let(TagMatch(token), LAMBDA tagMatch :
         IF tagMatch = NoMatch THEN st
         ELSE IF ~StartsWith(token, "</")
         THEN [st EXCEPT !.currentStyle = applyHtmlLikeStyle(st.currentStyle,
                             ToLowerCase(tagMatch[1]), parseXmlAttributes(tagMatch[2]))]
         ELSE PopStyle(st, dflt))

\* The body of parseInlineStyledText's loop: st is [lines, currentStyle, styleStack].
TokenStep(st, token, dflt) ==
    IF ~StartsWith(token, "<")
    THEN [st EXCEPT !.lines = PushParts(st.lines, Split(decodeEntities(token), "\n"),
                                        st.currentStyle)]
    ELSE Let(TagMatch(token), LAMBDA tagMatch :
         IF tagMatch = NoMatch THEN st
         ELSE IF ~StartsWith(token, "</")
         THEN [st EXCEPT !.styleStack = Append(st.styleStack, st.currentStyle),
                         !.currentStyle = applyHtmlLikeStyle(st.currentStyle,
                             ToLowerCase(tagMatch[1]), parseXmlAttributes(tagMatch[2]))]
         ELSE PopStyle(st, dflt))

RECURSIVE TokenLoop(_, _, _)
TokenLoop(st, tokens, dflt) ==
    IF Len(tokens) = 0 THEN st
    ELSE TokenLoop(TokenStep(st, Head(tokens), dflt), Tail(tokens), dflt)

\* parseInlineStyledText(rawText), with DEFAULT_STYLE as `dflt`.
parseInlineStyledText(rawText, dflt) ==
    Let(pruneLines(TokenLoop(
            [lines |-> << <<>> >>, currentStyle |-> dflt, styleStack |-> <<>>],
            FilterNonEmpty(SplitTags(Trim(StripOverrideBlocks(ReplaceBreaks(rawText))))),
            dflt).lines), LAMBDA cleanedLines :
        [text |-> Trim(FlattenLines(cleanedLines)), lines |-> cleanedLines])

(***************************************************************************)
(* Cues and the outcome of a parse.  A block of a document yields a cue,   *)
(* is skipped (`continue`), or throws (a property read on null or          *)
(* undefined, the only way this code can raise).                           *)
(***************************************************************************)
MakeCue(startTime, endTime, parsed) ==
    [startTime |-> startTime, endTime |-> endTime, text |-> parsed.text,
     lines |-> parsed.lines, alignment |-> Undefined, verticalAlign |-> Undefined,
     noBackground |-> Undefined]

Skipped == [kind |-> "skip"]

Threw == [kind |-> "throw"]

Yield(cue) == [kind |-> "cue", cue |-> cue]

\* The cues pushed, in the order of the iterations that pushed them.
RECURSIVE CuesOf(_)
CuesOf(results) ==
    IF Len(results) = 0 THEN <<>>
    ELSE IF Head(results).kind = "cue" THEN <<Head(results).cue>> \o CuesOf(Tail(results))
    ELSE CuesOf(Tail(results))

\* A loop that would put each cue in front of the cues pushed before it.
CollectReversed(results) ==
    IF \E i \in 1..Len(results) : results[i].kind = "throw"
    THEN [threw |-> TRUE, cues |-> <<>>]
    ELSE [threw |-> FALSE,
          cues |-> [i \in 1..Len(CuesOf(results)) |->
                       CuesOf(results)[Len(CuesOf(results)) + 1 - i]]]

\* What the loop over the blocks returns: an exception of any block ends the call.
Collect(results) ==
    IF \E i \in 1..Len(results) : results[i].kind = "throw"
    THEN [threw |-> TRUE, cues |-> <<>>]
    ELSE [threw |-> FALSE, cues |-> CuesOf(results)]

\* timeMatch[1], timeMatch[2] and the cue built from them: reading an index of
\* null throws a TypeError.
CueFromTimeMatch(timeMatch, rawText, dflt) ==
    IF timeMatch = NoMatch THEN Threw
    ELSE Yield(MakeCue(parseFlexibleTimeString(timeMatch[1]),
                       parseFlexibleTimeString(timeMatch[2]),
                       parseInlineStyledText(rawText, dflt)))

\* An iteration without the test of timeMatch.
CueWithoutGuard(timeMatch, rawText, dflt) == CueFromTimeMatch(timeMatch, rawText, dflt)

\* if (!timeMatch) continue; and the rest of the iteration.
CueOrSkip(timeMatch, rawText, dflt) ==
    IF timeMatch = NoMatch THEN Skipped ELSE CueFromTimeMatch(timeMatch, rawText, dflt)

\* content.split(/\n\n+/)
RECURSIVE SplitBlocks(_)
SplitBlocks(s) ==
    Let(IndexOf(s, "\n\n"), LAMBDA i :
        IF i = 0 THEN <<s>>
        ELSE <<SubSeq(s, 1, i - 1)>>
                 \o SplitBlocks(StrFrom(s, Min({j \in (i + 2)..(Len(s) + 1) :
                                                   Char(s, j) # "\n"}))))

\* lines.findIndex(line => line.includes('-->')), 1-based; 0 for -1.
FindTimeLine(lines) == MinOrZero({i \in 1..Len(lines) : Includes(lines[i], "-->")})

\* One iteration of parseWebVTT's loop.
WebVTTBlock(block, dflt) ==
    Let(TrimAll(Split(block, "\n")), LAMBDA lines :
    Let(FindTimeLine(lines), LAMBDA timeLineIndex :
        IF timeLineIndex = 0 THEN Skipped
        ELSE Let(FilterNonEmpty(SubSeq(lines, timeLineIndex + 1, Len(lines))),
                 LAMBDA textLines :
             IF Len(textLines) = 0 THEN Skipped
             ELSE CueOrSkip(TimeMatch(lines[timeLineIndex]), Join(textLines, "\n"), dflt))))

parseWebVTT(vttContent, dflt) ==
    Let(SplitBlocks(ReplaceAll(vttContent, "\r", "")), LAMBDA parts :
        Collect([i \in 1..Len(parts) |-> WebVTTBlock(parts[i], dflt)]))

\* One iteration of parseSRT's loop.
SRTBlock(block, dflt) ==
    Let(Split(Trim(block), "\n"), LAMBDA lines :
        IF Len(lines) < 2 THEN Skipped
        ELSE Let(FindTimeLine(lines), LAMBDA timeIndex :
             IF timeIndex = 0 THEN Skipped
             ELSE CueOrSkip(TimeMatch(lines[timeIndex]),
                            Join(SubSeq(lines, timeIndex + 1, Len(lines)), "\n"), dflt)))

parseSRT(srtContent, dflt) ==
    Let(SplitBlocks(ReplaceAll(srtContent, "\r", "")), LAMBDA parts :
        Collect([i \in 1..Len(parts) |-> SRTBlock(parts[i], dflt)]))

(***************************************************************************)
(* YTT and SRV3.                                                           *)
(***************************************************************************)
\* For "<tag" at position i: the start of the first closing tag after the '>'
\* that closes the opening tag (0: there is none).
ElementClose(s, tag, i) ==
    Let(IndexOfFrom(s, ">", i + 1 + Len(tag)), LAMBDA gt :
        IF gt = 0 THEN 0 ELSE IndexOfFrom(s, "</" \o tag \o ">", gt + 1))

\* The successive matches of /<tag\b([^>]*)>([\s\S]*?)<\/tag>/g, each as
\* <<attributes, body>>.
RECURSIVE Elements(_, _)
Elements(s, tag) ==
    Let(MinOrZero({i \in 1..Len(s) :
                      /\ At(s, i, "<" \o tag)
                      /\ ~IsWordChar(Char(s, i + 1 + Len(tag)))
                      /\ ElementClose(s, tag, i) # 0}), LAMBDA i :
        IF i = 0 THEN <<>>
        ELSE Let(IndexOfFrom(s, ">", i + 1 + Len(tag)), LAMBDA gt :
             Let(ElementClose(s, tag, i), LAMBDA end :
                 <<(<<SubSeq(s, i + 1 + Len(tag), gt - 1), SubSeq(s, gt + 1, end - 1)>>)>>
                     \o Elements(StrFrom(s, end + Len(tag) + 3), tag))))

\* attrs.t ?? '0'
AttrOr(attrs, name, default) ==
    Let(GetAttr(attrs, name), LAMBDA value : IF value = Undefined THEN default ELSE value)

\* startTime, and endTime = startTime + the duration, of a <p> element
TimedCue(attrs, parsed) ==
    Let(parseMillisecondsString(AttrOr(attrs, "t", "0")), LAMBDA startTime :
    Let(parseMillisecondsString(AttrOr(attrs, "d", "0")), LAMBDA duration :
        MakeCue(startTime, NumAdd(startTime, duration), parsed)))

\* One iteration of parseYTT's loop.
YTTElement(element, dflt) ==
    Yield(TimedCue(parseXmlAttributes(element[1]), parseInlineStyledText(element[2], dflt)))

parseYTT(yttContent, dflt) ==
    Let(Elements(yttContent, "p"), LAMBDA ps :
        Collect([i \in 1..Len(ps) |-> YTTElement(ps[i], dflt)]))

\* One <s> span as a segment; a span without a c attribute has no style, which
\* is given as the style with no field set.
SRV3Segment(span, dflt) ==
    Let(GetAttr(parseXmlAttributes(span[1]), "c"), LAMBDA c :
        [text |-> parseInlineStyledText(span[2], dflt).text,
         style |-> IF Truthy(c) THEN youtubeClassToStyle(c) ELSE EmptyStyle])

\* One iteration of parseSRV3's outer loop.
SRV3Element(element, dflt) ==
    Let(Elements(element[2], "s"), LAMBDA spans :
    Let([i \in 1..Len(spans) |-> SRV3Segment(spans[i], dflt)], LAMBDA segments :
        Yield(TimedCue(parseXmlAttributes(element[1]),
            IF Len(segments) > 0
            THEN [text |-> Trim(Join([i \in 1..Len(segments) |-> segments[i].text], " ")),
                  lines |-> <<segments>>]
            ELSE parseInlineStyledText(element[2], dflt)))))

parseSRV3(srv3Content, dflt) ==
    Let(Elements(srv3Content, "p"), LAMBDA ps :
        Collect([i \in 1..Len(ps) |-> SRV3Element(ps[i], dflt)]))

(***************************************************************************)
(* Number formatting (template literals) and parseFloat.                  *)
(***************************************************************************)
RECURSIVE NatToString(_)
NatToString(n) ==
    IF n < 10 THEN Char("0123456789", n + 1)
    ELSE NatToString(n \div 10) \o Char("0123456789", (n % 10) + 1)

RECURSIVE Pow10(_)
Pow10(k) == IF k = 0 THEN 1 ELSE 10 * Pow10(k - 1)

\* The fraction f (0 <= f < 10^k) as k digits without the trailing zeros.
RECURSIVE FractionDigits(_, _)
FractionDigits(f, k) ==
    IF f = 0 \/ k = 0 THEN ""
    ELSE NatToString(f \div Pow10(k - 1)) \o FractionDigits(f % Pow10(k - 1), k - 1)

\* The digits of a / 10^decimals for a natural a.
FormatScaled(a, decimals) ==
    Let(FractionDigits(a % Pow10(decimals), decimals), LAMBDA fp :
        NatToString(a \div Pow10(decimals)) \o (IF fp = "" THEN "" ELSE "." \o fp))

\* `${x / 10^extraDecimals}` for a number x; -0 prints as "0".
FormatNumber(x, extraDecimals) ==
    IF x.nan THEN "NaN"
    ELSE IF x.ms < 0 THEN "-" \o FormatScaled(-x.ms, 3 + extraDecimals)
    ELSE FormatScaled(x.ms, 3 + extraDecimals)

\* parseFloat(str): the longest prefix of the trimmed string that is a decimal
\* literal (sign, digits, '.', digits); NaN when there is none.
parseFloat(str) ==
    Let(Trim(str), LAMBDA t :
    Let(IF Char(t, 1) \in {"-", "+"} THEN 2 ELSE 1, LAMBDA b :
    Let(DigitRunEnd(t, b), LAMBDA ie :
    Let(IF Char(t, ie + 1) = "." THEN DigitRunEnd(t, ie + 2) ELSE ie, LAMBDA fe :
    Let(IF fe >= b THEN SubSeq(t, b, fe) ELSE "", LAMBDA body :
        IF body = "" \/ body = "." THEN NaN
        ELSE IF Char(t, 1) = "-" THEN NumScale(UnsignedNumber(body), -1)
        ELSE UnsignedNumber(body))))))

(***************************************************************************)
(* The ASS table reader and the style table.                               *)
(***************************************************************************)
\* input.split(','), every value trimmed: no cap at the field count.
splitAtEveryComma(input, expectedFields) == TrimAll(Split(input, ","))

splitWithLimit(input, expectedFields) ==
    Let(Split(input, ","), LAMBDA values :
        IF Len(values) <= expectedFields THEN TrimAll(values)
        ELSE TrimAll(SubSeq(values, 1, expectedFields - 1))
                 \o <<Trim(Join(SubSeq(values, expectedFields, Len(values)), ","))>>)

\* The value at the field's usual place in its table, whatever the Format line says.
readFieldByPosition(values, fields, fieldName) ==
    Let(CASE fieldName \in {"name", "layer"} -> 1
          [] fieldName \in {"fontname", "start"} -> 2
          [] fieldName \in {"fontsize", "end"} -> 3
          [] fieldName \in {"bold", "style"} -> 4
          [] fieldName \in {"italic", "text"} -> 5
          [] OTHER -> 0,
        LAMBDA index : IF index = 0 \/ index > Len(values) THEN Undefined ELSE values[index])

\* values[fields.indexOf(fieldName)]; Undefined when the field or the value is absent.
readField(values, fields, fieldName) ==
    Let(MinOrZero({i \in 1..Len(fields) : fields[i] = fieldName}), LAMBDA index :
        IF index = 0 \/ index > Len(values) THEN Undefined ELSE values[index])

\* line.replace('Format:', '').split(',').map(f => f.trim().toLowerCase())
FormatFields(line) ==
    Let(Split(ReplaceFirst(line, "Format:", ""), ","), LAMBDA raw :
        [i \in 1..Len(raw) |-> ToLowerCase(Trim(raw[i]))])

isASSFlag(value) == value = "1" \/ value = "-1"

toPx(value) ==
    IF ~Truthy(value) THEN Undefined
    ELSE Let(Number(value), LAMBDA num :
         IF num.nan THEN Undefined ELSE FormatNumber(num, 0) \o "px")

\* inner.padStart(6, '0').slice(-6)
SixHexDigits(inner) ==
    Let(SubSeq("000000", 1, IF Len(inner) < 6 THEN 6 - Len(inner) ELSE 0) \o inner,
        LAMBDA padded : SubSeq(padded, Len(padded) - 5, Len(padded)))

assColorToCss(input) ==
    IF ~Truthy(input) THEN Undefined
    ELSE Let(Trim(input), LAMBDA value :
         IF ~StartsWith(value, "&H") \/ ~EndsWith(value, "&") THEN Undefined
         \* `#${r}${g}${b}` with b, g, r the three pairs of hex
         ELSE Let(SixHexDigits(SubSeq(value, 3, Len(value) - 1)), LAMBDA hex :
              "#" \o SubSeq(hex, 5, 6) \o SubSeq(hex, 3, 4) \o SubSeq(hex, 1, 2)))

\* `rotate(${-angle}deg) scale(${scalex / 100}, ${scaley / 100})`
RowTransform(angle, scalex, scaley) ==
    "rotate(" \o FormatNumber(NumScale(angle, -1), 0) \o "deg) scale("
        \o FormatNumber(scalex, 2) \o ", " \o FormatNumber(scaley, 2) \o ")"

\* The style record of one Style row.
StyleOfRow(values, fields) ==
    [fontFamily |-> OrElse(readField(values, fields, "fontname"), Undefined),
     fontSize |-> toPx(readField(values, fields, "fontsize")),
     color |-> assColorToCss(OrElse(readField(values, fields, "primarycolour"),
                                    readField(values, fields, "primarycolor"))),
     backgroundColor |-> assColorToCss(OrElse(readField(values, fields, "backcolour"),
                                              readField(values, fields, "backcolor"))),
     fontWeight |-> IF isASSFlag(readField(values, fields, "bold")) THEN "bold" ELSE "normal",
     fontStyle |-> IF isASSFlag(readField(values, fields, "italic")) THEN "italic"
                   ELSE "normal",
     textDecoration |-> buildTextDecoration(isASSFlag(readField(values, fields, "underline")),
                                            isASSFlag(readField(values, fields, "strikeout"))),
     transform |-> RowTransform(parseFloat(OrElse(readField(values, fields, "angle"), "0")),
                                parseFloat(OrElse(readField(values, fields, "scalex"), "100")),
                                parseFloat(OrElse(readField(values, fields, "scaley"), "100"))),
     display |-> Undefined]

\* The Map of styles is a sequence of <<name, style>> in insertion order.
MapHas(table, name) == \E i \in 1..Len(table) : table[i][1] = name

\* styles.set(name, style): setting an existing name replaces its value in place.
MapSet(table, name, value) ==
    IF MapHas(table, name)
    THEN [i \in 1..Len(table) |-> IF table[i][1] = name THEN <<name, value>> ELSE table[i]]
    ELSE Append(table, <<name, value>>)

MapGet(table, name) == table[CHOOSE i \in 1..Len(table) : table[i][1] = name][2]

\* /\[(v4\+? styles)\]/i.test(line)
IsStylesHeader(line) ==
    Let(ToLowerCase(line), LAMBDA lower :
        Includes(lower, "[v4 styles]") \/ Includes(lower, "[v4+ styles]"))

\* One iteration of parseASSStyles' loop; st is [inSection, fields, styles].
StylesStep(st, line) ==
    IF StartsWith(line, "[") THEN [st EXCEPT !.inSection = IsStylesHeader(line)]
    ELSE IF ~st.inSection THEN st
    ELSE IF StartsWith(line, "Format:") THEN [st EXCEPT !.fields = FormatFields(line)]
    ELSE IF ~StartsWith(line, "Style:") \/ Len(st.fields) = 0 THEN st
    ELSE Let(splitWithLimit(Trim(ReplaceFirst(line, "Style:", "")), Len(st.fields)),
             LAMBDA values :
         \* styles.set(readField(values, fields, 'name') || `Style-${styles.size}`, {...})
         [st EXCEPT !.styles = MapSet(st.styles,
                                      OrElse(readField(values, st.fields, "name"),
                                             "Style-" \o NatToString(Len(st.styles))),
                                      StyleOfRow(values, st.fields))])

RECURSIVE StylesLoop(_, _)
StylesLoop(st, lines) ==
    IF Len(lines) = 0 THEN st ELSE StylesLoop(StylesStep(st, Head(lines)), Tail(lines))

parseASSStyles(assContent) ==
    StylesLoop([inSection |-> FALSE, fields |-> <<>>, styles |-> <<>>],
               TrimAll(Split(assContent, "\n"))).styles

(***************************************************************************)
(* ASS events.                                                             *)
(***************************************************************************)
\* The code read in the older numbering (1-3 bottom, 5-7 middle, 9-11 top,
\* the column by code % 4), as getAlignmentCSS of assParser.ts reads it.
AlignmentOfLegacyCode(code) ==
    [alignment |-> IF code % 4 = 1 THEN "left"
                   ELSE IF code % 4 = 3 THEN "right" ELSE "center",
     verticalAlign |-> IF code >= 9 THEN "top"
                       ELSE IF code >= 5 THEN "middle" ELSE "bottom"]

\* The grid position of an alignment code.
AlignmentOfCode(code) ==
    [alignment |-> IF code \in {1, 4, 7} THEN "left"
                   ELSE IF code \in {3, 6, 9} THEN "right" ELSE "center",
     verticalAlign |-> IF code \in {7, 8, 9} THEN "top"
                       ELSE IF code \in {4, 5, 6} THEN "middle" ELSE "bottom"]

\* text.match(/\\an(\d+)/) and the grid of the code; Undefined fields for {}.
parseAssAlignmentTag(text) ==
    Let(MinOrZero({i \in 1..Len(text) : At(text, i, "\\an") /\ IsDigit(Char(text, i + 3))}),
        LAMBDA i :
        IF i = 0 THEN [alignment |-> Undefined, verticalAlign |-> Undefined]
        ELSE AlignmentOfCode(DigitsValue(SubSeq(text, i + 3, DigitRunEnd(text, i + 3)), 0)))

\* The event of a Dialogue row from the strings read for it: text.match and
\* time.trim throw on undefined.
\* events.push({ startTime, endTime, style, text, ...align })
EventOfRow(style, text, start, end) ==
    IF text = Undefined \/ start = Undefined \/ end = Undefined THEN Threw
    ELSE Let(parseAssAlignmentTag(text), LAMBDA align :
         Yield([startTime |-> parseASSTime(start), endTime |-> parseASSTime(end),
                style |-> style, text |-> text,
                alignment |-> align.alignment, verticalAlign |-> align.verticalAlign]))

\* One Dialogue row of parseASSEvents.
DialogueRow(line, fields) ==
    Let(splitWithLimit(Trim(ReplaceFirst(line, "Dialogue:", "")), Len(fields)),
        LAMBDA values :
        EventOfRow(OrElse(readField(values, fields, "style"), "Default"),
                   OrElse(readField(values, fields, "text"), ""),
                   OrElse(readField(values, fields, "start"), "0:00:00.00"),
                   OrElse(readField(values, fields, "end"), "0:00:00.00")))

\* One iteration of parseASSEvents' loop; st is [inEvents, fields, events].
EventsStep(st, line) ==
    IF StartsWith(line, "[")
    THEN [st EXCEPT !.inEvents = StartsWith(ToLowerCase(line), "[events]")]
    ELSE IF ~st.inEvents THEN st
    ELSE IF StartsWith(line, "Format:") THEN [st EXCEPT !.fields = FormatFields(line)]
    ELSE IF ~StartsWith(line, "Dialogue:") \/ Len(st.fields) = 0 THEN st
    ELSE [st EXCEPT !.events = Append(st.events, DialogueRow(line, st.fields))]

RECURSIVE EventsLoop(_, _)
EventsLoop(st, lines) ==
    IF Len(lines) = 0 THEN st ELSE EventsLoop(EventsStep(st, Head(lines)), Tail(lines))

\* The rows' outcomes, in document order.
parseASSEvents(assContent) ==
    EventsLoop([inEvents |-> FALSE, fields |-> <<>>, events |-> <<>>],
               TrimAll(Split(assContent, "\n"))).events

\* Array.prototype.sort((a, b) => a.startTime - b.startTime): stable, ascending.
RECURSIVE InsertEvent(_, _)
InsertEvent(sorted, e) ==
    IF Len(sorted) = 0 THEN <<e>>
    ELSE IF sorted[Len(sorted)].startTime.ms <= e.startTime.ms THEN Append(sorted, e)
    ELSE Append(InsertEvent(SubSeq(sorted, 1, Len(sorted) - 1), e), sorted[Len(sorted)])

RECURSIVE SortFrom(_, _)
SortFrom(sorted, rest) ==
    IF Len(rest) = 0 THEN sorted ELSE SortFrom(InsertEvent(sorted, Head(rest)), Tail(rest))

\* The events as parseASSEvents returns them, without the sort.
KeepOrder(events) == events

SortEvents(events) == SortFrom(<<>>, events)

(***************************************************************************)
(* The ASS dialect: override blocks and the running style.                 *)
(***************************************************************************)
\* Where \d+(?:\.\d+)? (after an optional '-' when signed) ends when it
\* starts at b (0: no match).
NumberEnd(tags, b, signed) ==
    Let(IF signed /\ Char(tags, b) = "-" THEN b + 1 ELSE b, LAMBDA d :
        IF ~IsDigit(Char(tags, d)) THEN 0
        ELSE Let(DigitRunEnd(tags, d), LAMBDA ie :
             IF Char(tags, ie + 1) = "." /\ IsDigit(Char(tags, ie + 2))
             THEN DigitRunEnd(tags, ie + 2) ELSE ie))

\* tags.match(/tag(-?\d+(?:\.\d+)?)/)[1] (signed) or tags.match(/tag(\d+(?:\.\d+)?)/)[1];
\* Undefined when there is no match.
TagNumber(tags, tag, signed) ==
    Let(MinOrZero({i \in 1..Len(tags) :
                      At(tags, i, tag) /\ NumberEnd(tags, i + Len(tag), signed) # 0}),
        LAMBDA i :
        IF i = 0 THEN Undefined
        ELSE SubSeq(tags, i + Len(tag), NumberEnd(tags, i + Len(tag), signed)))

IsHexDigit(c) ==
    IsDigit(c) \/ c \in {"A", "B", "C", "D", "E", "F", "a", "b", "c", "d", "e", "f"}

\* tags.match(/\\c&H([0-9A-Fa-f]{6})&/)[1]
ColorTag(tags) ==
    Let(MinOrZero({i \in 1..Len(tags) :
                      /\ At(tags, i, "\\c&H")
                      /\ \A k \in 4..9 : IsHexDigit(Char(tags, i + k))
                      /\ Char(tags, i + 10) = "&"}), LAMBDA i :
        IF i = 0 THEN Undefined ELSE SubSeq(tags, i + 4, i + 9))

\* sx or sy of the scale transform
ScaleFactor(tag) == IF tag # Undefined THEN FormatNumber(parseFloat(tag), 2) ELSE "1"

\* The transforms pushed for the rotation and scale tags, in the code's order.
OverrideTransforms(tags) ==
    Let(TagNumber(tags, "\\frz", TRUE), LAMBDA frz :
    Let(TagNumber(tags, "\\frx", TRUE), LAMBDA frx :
    Let(TagNumber(tags, "\\fry", TRUE), LAMBDA fry :
    Let(TagNumber(tags, "\\fscx", FALSE), LAMBDA fscx :
    Let(TagNumber(tags, "\\fscy", FALSE), LAMBDA fscy :
        (IF frz # Undefined
         THEN <<"rotateZ(" \o FormatNumber(NumScale(parseFloat(frz), -1), 0) \o "deg)">>
         ELSE <<>>)
        \o (IF frx # Undefined
            THEN <<"rotateX(" \o FormatNumber(parseFloat(frx), 0) \o "deg)">> ELSE <<>>)
        \o (IF fry # Undefined
            THEN <<"rotateY(" \o FormatNumber(parseFloat(fry), 0) \o "deg)">> ELSE <<>>)
        \o (IF fscx # Undefined \/ fscy # Undefined
            THEN <<"scale(" \o ScaleFactor(fscx) \o ", " \o ScaleFactor(fscy) \o ")">>
            ELSE <<>>))))))

\* A \s1 statement that sets the strike alone, the underline forgotten.
OverrideStrikeAlone(next, tags) ==
    IF Includes(tags, "\\s1")
    THEN [next EXCEPT !.textDecoration = buildTextDecoration(FALSE, TRUE)]
    ELSE next

\* The \s1 statement, which the code holds twice.
OverrideStrike(next, tags) ==
    IF Includes(tags, "\\s1")
    THEN [next EXCEPT !.textDecoration =
              buildTextDecoration(HasDecoration(next, "underline"), TRUE)]
    ELSE next

\* The statements of applyASSOverride in order, each on the result of the last;
\* of \b1, \b0 and of \i1, \i0 the later test wins.
applyASSOverride(style, overrideBlock) ==
    Let(SubSeq(overrideBlock, 2, Len(overrideBlock) - 1), LAMBDA tags :
    Let([style EXCEPT
            !.fontWeight = IF Includes(tags, "\\b0") THEN "normal"
                           ELSE IF Includes(tags, "\\b1") THEN "bold" ELSE @,
            !.fontStyle = IF Includes(tags, "\\i0") THEN "normal"
                          ELSE IF Includes(tags, "\\i1") THEN "italic" ELSE @], LAMBDA flagged :
    Let(IF Includes(tags, "\\u1")
        THEN [flagged EXCEPT !.textDecoration =
                  buildTextDecoration(TRUE, HasDecoration(flagged, "line-through"))]
        ELSE flagged, LAMBDA underlined :
    Let(OverrideStrike(OverrideStrike(underlined, tags), tags), LAMBDA struck :
    Let(ColorTag(tags), LAMBDA colorTag :
    Let(TagNumber(tags, "\\fs", FALSE), LAMBDA sizeTag :
    Let(OverrideTransforms(tags), LAMBDA transforms :
        [struck EXCEPT
            !.color = IF colorTag # Undefined THEN assColorToCss("&H" \o colorTag \o "&")
                      ELSE @,
            !.fontSize = IF sizeTag # Undefined THEN sizeTag \o "px" ELSE @,
            !.display = IF Len(transforms) > 0 THEN "inline-block" ELSE @,
            !.transform = IF Len(transforms) > 0 THEN Join(transforms, " ") ELSE @])))))))

\* text.split(/(\{[^}]*\})/g)
RECURSIVE SplitOverrideBlocks(_)
SplitOverrideBlocks(s) ==
    Let(MinOrZero({i \in 1..Len(s) :
                      /\ Char(s, i) = "{"
                      /\ \E j \in (i + 1)..Len(s) : Char(s, j) = "}"}), LAMBDA i :
        IF i = 0 THEN <<s>>
        ELSE Let(IndexOfFrom(s, "}", i + 1), LAMBDA j :
             <<SubSeq(s, 1, i - 1), SubSeq(s, i, j)>>
                 \o SplitOverrideBlocks(StrFrom(s, j + 1))))

\* A loop body that would apply each override block to the default style
\* instead of the current one.
DialogueStepFromDefault(st, token) ==
    IF token = "" THEN st
    ELSE IF StartsWith(token, "{") /\ EndsWith(token, "}")
    THEN [st EXCEPT !.currentStyle = applyASSOverride(BuiltInDefaultStyle, token)]
    ELSE [st EXCEPT !.lines = PushParts(st.lines, Split(decodeEntities(token), "\n"),
                                        st.currentStyle)]

\* The body of parseASSDialogueText's loop; st is [lines, currentStyle].
DialogueStep(st, token) ==
    IF token = "" THEN st
    ELSE IF StartsWith(token, "{") /\ EndsWith(token, "}")
    THEN [st EXCEPT !.currentStyle = applyASSOverride(st.currentStyle, token)]
    ELSE [st EXCEPT !.lines = PushParts(st.lines, Split(decodeEntities(token), "\n"),
                                        st.currentStyle)]

RECURSIVE DialogueLoop(_, _)
DialogueLoop(st, tokens) ==
    IF Len(tokens) = 0 THEN st ELSE DialogueLoop(DialogueStep(st, Head(tokens)), Tail(tokens))

parseASSDialogueText(text, baseStyle) ==
    Let(DialogueLoop(
            [lines |-> << <<>> >>, currentStyle |-> baseStyle],
            SplitOverrideBlocks(
                ReplaceAll(ReplaceAll(ReplaceAll(text, "\\N", "\n"), "\\n", "\n"),
                           "\\h", " "))).lines, LAMBDA lines :
        [text |-> Trim(FlattenLines(lines)), lines |-> pruneLines(lines)])

\* events.map(event => ...) of parseASSWithStyles for one event.
ASSCue(event, styleMap, dflt) ==
    \* styleMap.get(event.style) ?? DEFAULT_STYLE
    Let(IF MapHas(styleMap, event.style) THEN MapGet(styleMap, event.style) ELSE dflt,
        LAMBDA baseStyle :
    Let(parseASSDialogueText(event.text, baseStyle), LAMBDA parsed :
        [startTime |-> event.startTime, endTime |-> event.endTime, text |-> parsed.text,
         lines |-> parsed.lines,
         alignment |-> IF event.alignment = Undefined THEN "center" ELSE event.alignment,
         verticalAlign |-> IF event.verticalAlign = Undefined THEN "bottom"
                           ELSE event.verticalAlign,
         noBackground |-> "true"]))

parseASSWithStyles(assContent, dflt) ==
    Let(parseASSStyles(assContent), LAMBDA styleMap :
    Let(Collect(parseASSEvents(assContent)), LAMBDA rows :
        IF rows.threw THEN rows
        ELSE Let(SortEvents(rows.cues), LAMBDA events :
             [threw |-> FALSE,
              cues |-> [i \in 1..Len(events) |-> ASSCue(events[i], styleMap, dflt)]])))

(***************************************************************************)
(* Format detection and the cue index.                                     *)
(***************************************************************************)
\* /^\d{2}:\d{2}:\d{2},\d{3}/.test(s): the pattern anchored at the start.
CommaTimestampAtStart(s) ==
    /\ IsDigit(Char(s, 1)) /\ IsDigit(Char(s, 2)) /\ Char(s, 3) = ":"
    /\ IsDigit(Char(s, 4)) /\ IsDigit(Char(s, 5)) /\ Char(s, 6) = ":"
    /\ IsDigit(Char(s, 7)) /\ IsDigit(Char(s, 8)) /\ Char(s, 9) = ","
    /\ IsDigit(Char(s, 10)) /\ IsDigit(Char(s, 11)) /\ IsDigit(Char(s, 12))

\* /\d{2}:\d{2}:\d{2},\d{3}/.test(s)
HasCommaTimestamp(s) ==
    \E i \in 1..Len(s) :
        /\ IsDigit(Char(s, i)) /\ IsDigit(Char(s, i + 1)) /\ Char(s, i + 2) = ":"
        /\ IsDigit(Char(s, i + 3)) /\ IsDigit(Char(s, i + 4)) /\ Char(s, i + 5) = ":"
        /\ IsDigit(Char(s, i + 6)) /\ IsDigit(Char(s, i + 7)) /\ Char(s, i + 8) = ","
        /\ IsDigit(Char(s, i + 9)) /\ IsDigit(Char(s, i + 10)) /\ IsDigit(Char(s, i + 11))

\* A chain that would test every file name before any content signature.
DetectByNameFirst(normalized, lowerName) ==
    IF EndsWith(lowerName, ".ass") \/ EndsWith(lowerName, ".ssa") THEN "ass"
    ELSE IF EndsWith(lowerName, ".ytt") THEN "ytt"
    ELSE IF EndsWith(lowerName, ".srv3") THEN "srv3"
    ELSE IF EndsWith(lowerName, ".vtt") THEN "vtt"
    ELSE IF EndsWith(lowerName, ".srt") THEN "srt"
    ELSE IF Includes(normalized, "[Script Info]") THEN "ass"
    ELSE IF Includes(normalized, "<timedtext") THEN "ytt"
    ELSE IF Includes(normalized, "<transcript") THEN "srv3"
    ELSE IF Includes(normalized, "WEBVTT") THEN "vtt"
    ELSE IF Includes(normalized, "-->")
    THEN (IF HasCommaTimestamp(normalized) THEN "srt" ELSE "vtt")
    ELSE "none"

\* The chain of tests of parseSubtitlesFromString: the parser the call runs.
DetectFormat(normalized, lowerName) ==
    IF EndsWith(lowerName, ".ass") \/ EndsWith(lowerName, ".ssa")
       \/ Includes(normalized, "[Script Info]") THEN "ass"
    ELSE IF EndsWith(lowerName, ".ytt") \/ Includes(normalized, "<timedtext") THEN "ytt"
    ELSE IF EndsWith(lowerName, ".srv3") \/ Includes(normalized, "<transcript") THEN "srv3"
    ELSE IF EndsWith(lowerName, ".vtt") \/ Includes(normalized, "WEBVTT") THEN "vtt"
    ELSE IF EndsWith(lowerName, ".srt") THEN "srt"
    ELSE IF Includes(normalized, "-->")
    THEN (IF HasCommaTimestamp(normalized) THEN "srt" ELSE "vtt")
    ELSE "none"

\* A last branch that would look for <p> elements instead of returning [].
RunParserWithDefault(format, normalized, dflt) ==
    CASE format = "ass"  -> parseASSWithStyles(normalized, dflt)
      [] format = "ytt"  -> parseYTT(normalized, dflt)
      [] format = "srv3" -> parseSRV3(normalized, dflt)
      [] format = "vtt"  -> parseWebVTT(normalized, dflt)
      [] format = "srt"  -> parseSRT(normalized, dflt)
      [] OTHER           -> parseYTT(normalized, dflt)

\* The return statement of each branch.
RunParser(format, normalized, dflt) ==
    CASE format = "ass"  -> parseASSWithStyles(normalized, dflt)
      [] format = "ytt"  -> parseYTT(normalized, dflt)
      [] format = "srv3" -> parseSRV3(normalized, dflt)
      [] format = "vtt"  -> parseWebVTT(normalized, dflt)
      [] format = "srt"  -> parseSRT(normalized, dflt)
      [] OTHER           -> [threw |-> FALSE, cues |-> <<>>]

\* parseSubtitlesFromString(content, sourceName): the result of the call with
\* the branch that produced it.
parseSubtitlesFromString(content, sourceName, dflt) ==
    Let(Trim(content), LAMBDA normalized :
    Let(DetectFormat(normalized, ToLowerCase(sourceName)), LAMBDA detected :
    Let(RunParser(detected, normalized, dflt), LAMBDA result :
        [path |-> detected, threw |-> result.threw, cues |-> result.cues])))

\* A tokenizer that would work on DEFAULT_STYLE itself: a <b> tag would leave
\* it bold.
DefaultStyleShared(content, dflt) ==
    IF Includes(content, "<b>") THEN [dflt EXCEPT !.fontWeight = "bold"] ELSE dflt

\* What a call leaves in the module-level DEFAULT_STYLE: both tokenizers work
\* on copies ({ ...DEFAULT_STYLE }, { ...baseStyle }, { ...currentStyle }) and no
\* statement assigns to the object or to a field of it.
DefaultStyleAfter(content, dflt) == dflt

\* currentTime >= cue.startTime && currentTime < cue.endTime: the end excluded.
CueContainsBeforeEnd(cue, currentTime) ==
    NumLe(cue.startTime, currentTime) /\ NumLe(currentTime, cue.endTime)
        /\ currentTime.ms # cue.endTime.ms

\* currentTime >= cue.startTime && currentTime <= cue.endTime
CueContains(cue, currentTime) ==
    NumLe(cue.startTime, currentTime) /\ NumLe(currentTime, cue.endTime)

Null == [null |-> TRUE]

\* cues.find(...) ?? null
RECURSIVE getCurrentSubtitleCue(_, _)
getCurrentSubtitleCue(cues, currentTime) ==
    IF Len(cues) = 0 THEN Null
    ELSE IF CueContains(Head(cues), currentTime) THEN Head(cues)
    ELSE getCurrentSubtitleCue(Tail(cues), currentTime)

\* getCurrentSubtitleCue(cues, currentTime)?.text ?? ''
getCurrentSubtitle(cues, currentTime) ==
    Let(getCurrentSubtitleCue(cues, currentTime), LAMBDA cue :
        IF cue = Null THEN "" ELSE cue.text)

(***************************************************************************)
(* The documents the calls are made with.  A document is assembled from a  *)
(* head and up to MaxBlocks blocks of its family (cue blocks, <p>          *)
(* elements, Dialogue rows), in the order the document lists them.         *)
(***************************************************************************)
MaxBlocks == 2

MaxCalls == 3

TimedHeads == {"", "WEBVTT"}

TimedBlocks ==
    {"00:00:01.000 --> 00:00:04.000\nHello",
     "1\n00:00:03,000 --> 00:00:05,000\n<b> hi</b>",
     "00:05 --> 00:01 line:0\na<br><br>b",
     "--> 00:02\nx",
     "ab:00:01 --> 00:-1:00\n</i>y<>",
     "7\n00:00:02,000 --> 00:00:03,000"}

XmlHeads == {"timedtext", "transcript", "div"}

XmlBlocks ==
    {"<p t=\"1000\" d=\"2000\">Hi<br/>there</p>",
     "<p t=\"500\" d=\"-700\">neg</p>",
     "<p t=\"2000\" d=\"1000\"><s>a</s><s c=\"7\">b</s></p>",
     "<p t=\"x\">&amp;<i>it</i></p>",
     "<p t=\"3000\" d=\"500\"><s> c </s><s p=\"1\"></s></p>"}

AssStyles ==
    "[V4+ Styles]\nFormat: Name, Fontname, Fontsize, PrimaryColour, Bold, Italic, Underline, Angle, ScaleX\n"
    \o "Style: Default,Arial,20,&H0000FF&,0,0,0,0,100\n"
    \o "Style: Alt,Verdana,x,&HFF00&,-1,1,1,abc,150\n\n"
    \o "[Events]\nFormat: Layer, Start, End, Style, Text"

AssHeads == {"[Script Info]\nTitle: t\n\n" \o AssStyles, AssStyles}

AssBlocks ==
    {"Dialogue: 0,0:00:05.00,0:00:07.00,Default,{\\b1}Bold{\\b0}Normal",
     "Dialogue: 0,0:00:01.00,0:00:03.00,Alt,{\\an7}Hi, there\\NYou",
     "Dialogue: 0,0:00:05.00,0:00:06.00,Missing,\\N\\NLate",
     "Dialogue: 0,0:00:02.00",
     "Dialogue: 0,bad,0:00:01.00,Default,{\\u1\\frz45}U{\\u0\\fs12.5\\c&H00ff00&}\\hV",
     "Comment: 0,0:00:00.00,0:00:01.00,Default,note"}

PlainDocuments == {"", "Hello there", "<p t=\"0\" d=\"9\">loose</p>"}

Families == {"timed", "xml", "ass", "plain"}

HeadsOf(fam) ==
    CASE fam = "timed" -> TimedHeads
      [] fam = "xml"   -> XmlHeads
      [] fam = "ass"   -> AssHeads
      [] OTHER         -> PlainDocuments

BlocksOf(fam) ==
    CASE fam = "timed" -> TimedBlocks
      [] fam = "xml"   -> XmlBlocks
      [] fam = "ass"   -> AssBlocks
      [] OTHER         -> {}

BlockLists(fam) ==
    IF fam = "plain" THEN {<<>>}
    ELSE UNION {[1..n -> BlocksOf(fam)] : n \in 1..MaxBlocks}

\* The text of the document with head `hd` and the blocks `bs`.
Render(fam, hd, bs) ==
    CASE fam = "timed" -> Join((IF hd = "" THEN <<>> ELSE <<hd>>) \o bs, "\n\n")
      [] fam = "xml"   -> "<" \o hd \o "><body>\n" \o Join(bs, "\n") \o "\n</body></" \o hd \o ">"
      [] fam = "ass"   -> Join(<<hd>> \o bs, "\n") \o "\n"
      [] OTHER         -> hd

SourceNames == {"", "clip.VTT", "clip.srt", "clip.ass", "clip.ytt", "clip.srv3"}

QueryTimes == {Num(0), Num(1000), Num(2500), Num(3000), Num(5000), NaN}

(***************************************************************************)
(* The state: the document at hand (family, head, blocks, content), the    *)
(* source name, the module-level DEFAULT_STYLE, and what the last call     *)
(* did: the parser it ran, whether it returned or threw, the cues, the     *)
(* query made on them, and the log of the calls so far.                    *)
(***************************************************************************)
VARIABLES family, head, blocks, content, sourceName, DEFAULT_STYLE,
          pc, format, outcome, cues, currentTime, currentCue, currentText, calls

\* The player (VideoPlayer.tsx): the subtitle tracks it is given, the loop of
\* loadSubtitles over them (its index, its local result, where it stands),
\* the parsed tracks it renders from, and the playback state.
VARIABLES subtitles, trackIndex, newParsedSubtitles, parsedSubtitles, loader,
          isPlaying, error

\* The runs of loadSubtitles started for earlier values of the subtitles prop
\* and still awaiting, and state.selectedSubtitle.
VARIABLES staleRuns, selectedSubtitle

playerVars == <<subtitles, trackIndex, newParsedSubtitles, parsedSubtitles, loader,
                isPlaying, error, staleRuns, selectedSubtitle>>

vars == <<family, head, blocks, content, sourceName, DEFAULT_STYLE,
          pc, format, outcome, cues, currentTime, currentCue, currentText, calls,
          playerVars>>

\* state.selectedSubtitle === null, written as the select writes it:
\* value={state.selectedSubtitle ?? -1}
NoSubtitle == -1

\* No player: the parser is called on its own.
NoPlayer ==
    /\ subtitles = <<>>
    /\ trackIndex = 0
    /\ newParsedSubtitles = <<>>
    /\ parsedSubtitles = <<>>
    /\ loader = "idle"
    /\ isPlaying = FALSE
    /\ error = Null
    /\ staleRuns = <<>>
    /\ selectedSubtitle = NoSubtitle

NoTime == [nan |-> TRUE, ms |-> -1]

Idle ==
    /\ pc = "ready"
    /\ format = "none"
    /\ outcome = "none"
    /\ cues = <<>>
    /\ currentTime = NoTime
    /\ currentCue = Null
    /\ currentText = ""

Init ==
    /\ family \in Families
    /\ head \in HeadsOf(family)
    /\ blocks \in BlockLists(family)
    /\ content = Render(family, head, blocks)
    /\ sourceName \in SourceNames
    /\ DEFAULT_STYLE = BuiltInDefaultStyle
    /\ calls = <<>>
    /\ Idle
    /\ NoPlayer

\* A call of parseSubtitlesFromString(content, sourceName) that ends with `r`.
Call(r) ==
    /\ format' = r.path
    /\ outcome' = IF r.threw THEN "threw" ELSE "returned"
    /\ cues' = r.cues
    /\ calls' = Append(calls, [content |-> content, sourceName |-> sourceName,
                               threw |-> r.threw, cues |-> r.cues])

\* parseSubtitlesFromString(content, sourceName)
ParseSubtitlesFromString ==
    /\ pc = "ready"
    /\ \E r \in {parseSubtitlesFromString(content, sourceName, DEFAULT_STYLE)} : Call(r)
    /\ DEFAULT_STYLE' = DefaultStyleAfter(content, DEFAULT_STYLE)
    /\ pc' = "parsed"
    /\ UNCHANGED <<family, head, blocks, content, sourceName, currentTime, currentCue, currentText>>
    /\ UNCHANGED playerVars

\* getCurrentSubtitleCue(cues, t) and getCurrentSubtitle(cues, t) on the cues returned
GetCurrentSubtitleCue(t) ==
    /\ pc = "parsed"
    /\ outcome = "returned"
    /\ currentTime' = t
    /\ currentCue' = getCurrentSubtitleCue(cues, t)
    /\ currentText' = getCurrentSubtitle(cues, t)
    /\ UNCHANGED <<family, head, blocks, content, sourceName, DEFAULT_STYLE,
                   pc, format, outcome, cues, calls>>
    /\ UNCHANGED playerVars

Next ==
    \/ ParseSubtitlesFromString
    \/ \E t \in QueryTimes : GetCurrentSubtitleCue(t)

Spec == Init /\ [][Next]_vars

(***************************************************************************)
(* Repeated calls: the caller hands the parser one document after another  *)
(* (at most MaxCalls), so that a call runs after other calls have run.     *)
(***************************************************************************)
CallDocuments ==
    {[family |-> "timed", head |-> "WEBVTT",
      blocks |-> <<"00:00:01.000 --> 00:00:04.000\nHello">>],
     [family |-> "timed", head |-> "",
      blocks |-> <<"1\n00:00:03,000 --> 00:00:05,000\n<b> hi</b>">>],
     [family |-> "ass", head |-> "[Script Info]\nTitle: t\n\n" \o AssStyles,
      blocks |-> <<"Dialogue: 0,0:00:05.00,0:00:06.00,Missing,\\N\\NLate">>],
     [family |-> "xml", head |-> "timedtext",
      blocks |-> <<"<p t=\"2000\" d=\"1000\"><s>a</s><s c=\"7\">b</s></p>">>]}

CallNames == {"", "clip.srt"}

InitCalls ==
    /\ \E d \in CallDocuments :
          /\ family = d.family
          /\ head = d.head
          /\ blocks = d.blocks
          /\ content = Render(d.family, d.head, d.blocks)
    /\ sourceName \in CallNames
    /\ DEFAULT_STYLE = BuiltInDefaultStyle
    /\ calls = <<>>
    /\ Idle
    /\ NoPlayer

\* The caller takes up the next document and source name.
Submit(d, name) ==
    /\ pc = "parsed"
    /\ Len(calls) < MaxCalls
    /\ family' = d.family
    /\ head' = d.head
    /\ blocks' = d.blocks
    /\ content' = Render(d.family, d.head, d.blocks)
    /\ sourceName' = name
    /\ pc' = "ready"
    /\ format' = "none"
    /\ outcome' = "none"
    /\ cues' = <<>>
    /\ currentTime' = NoTime
    /\ currentCue' = Null
    /\ currentText' = ""
    /\ UNCHANGED <<DEFAULT_STYLE, calls>>
    /\ UNCHANGED playerVars

NextCalls ==
    \/ ParseSubtitlesFromString
    \/ \E d \in CallDocuments, name \in CallNames : Submit(d, name)

SpecCalls == InitCalls /\ [][NextCalls]_vars

(***************************************************************************)
(* Properties.                                                             *)
(***************************************************************************)
\* Rule k of the detection order holds of a document and its source name in
\* lower case.
DetectionRule(k, text, lower) ==
    CASE k = 1 -> \/ EndsWith(lower, ".ass")
                  \/ EndsWith(lower, ".ssa")
                  \/ Includes(text, "[Script Info]")
      [] k = 2 -> EndsWith(lower, ".ytt") \/ Includes(text, "<timedtext")
      [] k = 3 -> EndsWith(lower, ".srv3") \/ Includes(text, "<transcript")
      [] k = 4 -> EndsWith(lower, ".vtt") \/ Includes(text, "WEBVTT")
      [] OTHER -> EndsWith(lower, ".srt")

RuleFormats == <<"ass", "ytt", "srv3", "vtt", "srt">>

\* The rules that hold of the document at hand.
RulesMatching ==
    Let(ToLowerCase(sourceName), LAMBDA lower :
        {k \in 1..Len(RuleFormats) : DetectionRule(k, content, lower)})

NoRuleMatches == RulesMatching = {}

\* dd:dd:dd,ddd starts at position i of s.
CommaTimestampAt(s, i) ==
    /\ \A k \in {0, 1, 3, 4, 6, 7, 9, 10, 11} : IsDigit(Char(s, i + k))
    /\ Char(s, i + 2) = ":" /\ Char(s, i + 5) = ":" /\ Char(s, i + 8) = ","

\* Cue i of the returned cues contains the time t, both bounds included.
Contains(i, t) ==
    /\ ~t.nan /\ ~cues[i].startTime.nan /\ ~cues[i].endTime.nan
    /\ cues[i].startTime.ms <= t.ms
    /\ t.ms <= cues[i].endTime.ms

\* A call of parseSubtitlesFromString has just ended.
CallEnds == pc = "ready" /\ pc' = "parsed"

\* C1: parseSubtitlesFromString never raises: every call returns a cue
\* sequence, whatever the document and the source name.
ParseNeverRaises == outcome # "threw" /\ (pc = "parsed" => outcome = "returned")

\* A WebVTT or SRT document with a timing line that has no start ("--> 00:02")
\* has been parsed and the call returned.
MalformedBlockParsed ==
    /\ pc = "parsed" /\ outcome = "returned" /\ format \in {"vtt", "srt"}
    /\ \E i \in 1..Len(blocks) : blocks[i] = "--> 00:02\nx"

\* C2: the text of every cue returned equals its lines flattened: the segment
\* texts of a line concatenated, the lines joined by a newline.
TextIsFlattenedLines ==
    \A i \in 1..Len(cues) : cues[i].text = FlattenLines(cues[i].lines)

\* C3: a query returns the first cue of the list that contains the time, both
\* bounds included, and null when none does; the text query returns that cue's
\* text, or the empty string.
FirstContainingCueReturned ==
    (pc = "parsed" /\ currentTime # NoTime) =>
        /\ (\A i \in 1..Len(cues) : ~Contains(i, currentTime))
               => currentCue = Null /\ currentText = ""
        /\ \A i \in 1..Len(cues) :
               (Contains(i, currentTime) /\ \A k \in 1..(i - 1) : ~Contains(k, currentTime))
                   => currentCue = cues[i] /\ currentText = cues[i].text

\* Two different cues contain the query time, which is the start of the later
\* one, and the earlier one has been returned.
OverlapQueried ==
    /\ pc = "parsed" /\ currentTime # NoTime
    /\ \E i, j \in 1..Len(cues) :
          /\ i < j /\ cues[i] # cues[j]
          /\ Contains(i, currentTime) /\ Contains(j, currentTime)
          /\ currentTime.ms = cues[j].startTime.ms
          /\ currentCue = cues[i]

\* The Dialogue rows of the document in the order it lists them, and the cue
\* each of them stands for.
DialogueRows == CuesOf(parseASSEvents(Trim(content)))

DialogueCues ==
    Let(DialogueRows, LAMBDA rows :
    Let(parseASSStyles(Trim(content)), LAMBDA styleMap :
        [i \in 1..Len(rows) |-> ASSCue(rows[i], styleMap, DEFAULT_STYLE)]))

Count(seq, x) == Cardinality({i \in 1..Len(seq) : seq[i] = x})

IsPermutation(a, b) ==
    Len(a) = Len(b) /\ \A i \in 1..Len(a) : Count(a, a[i]) = Count(b, a[i])

\* C4: the cues returned for an ASS document are in ascending order of
\* startTime (no cue starts after its successor) and are a permutation of the
\* cues of the document's Dialogue rows.
ASSCuesSortedByStart ==
    [][(CallEnds /\ format' = "ass") =>
          /\ \A i \in 1..(Len(cues') - 1) : cues'[i].startTime.ms <= cues'[i + 1].startTime.ms
          /\ Let(DialogueCues, LAMBDA rowCues : IsPermutation(cues', rowCues))]_vars

\* An ASS document whose Dialogue rows are not in chronological order has
\* been parsed.
UnorderedRowsParsed ==
    /\ pc = "parsed" /\ format = "ass" /\ Len(cues) = 2
    /\ Let(DialogueRows, LAMBDA rows : rows[1].startTime.ms > rows[2].startTime.ms)

\* The cues of the document that holds block i alone.
RECURSIVE CuesOfBlocks(_, _)
CuesOfBlocks(fmt, i) ==
    IF i > Len(blocks) THEN <<>>
    ELSE RunParser(fmt, Trim(Render(family, head, <<blocks[i]>>)), DEFAULT_STYLE).cues
             \o CuesOfBlocks(fmt, i + 1)

\* C5: the cues returned for a WebVTT, SRT, YTT or SRV3 document are the cues
\* of its blocks or <p> elements in the order of the document: none is moved,
\* merged or dropped, whatever the timestamps.
CuesInDocumentOrder ==
    [][(CallEnds /\ family \in {"timed", "xml"} /\ format' \in {"vtt", "srt", "ytt", "srv3"})
          => cues' = CuesOfBlocks(format', 1)]_vars

\* A document whose second cue starts before its first one ends, or before it
\* starts, has been parsed in document order.
OverlappingBlocksParsed ==
    /\ pc = "parsed" /\ format \in {"vtt", "srt", "ytt", "srv3"} /\ Len(cues) = 2
    /\ cues[2].startTime.ms < cues[1].startTime.ms

\* C6: the parser a call runs is the one of the first rule, in the order ASS,
\* YTT, SRV3, WebVTT, SRT, that the source name or the content satisfies.
FirstRuleDecides ==
    [][CallEnds =>
        Let(RulesMatching, LAMBDA matching :
            \A k \in matching :
                (\A j \in matching : k <= j) => format' = RuleFormats[k])]_vars

\* A document named *.vtt whose content holds [Script Info] has been parsed
\* as ASS.
VttNamedScriptParsed ==
    /\ pc = "parsed" /\ format = "ass"
    /\ EndsWith(ToLowerCase(sourceName), ".vtt")
    /\ Includes(content, "[Script Info]")

\* C7: a call on a document that no rule matches and that holds no "-->"
\* returns the empty cue sequence.
NoFormatGivesNoCues ==
    [][(CallEnds /\ NoRuleMatches /\ ~Includes(content, "-->"))
        => outcome' = "returned" /\ cues' = <<>>]_vars

\* A document of <p> elements without signature, name hint or "-->" has been
\* parsed.
UnsignedParagraphsParsed ==
    /\ pc = "parsed" /\ NoRuleMatches /\ ~Includes(content, "-->")
    /\ Includes(content, "<p t=")
    /\ cues = <<>>

\* C8: a call on a document that no rule matches and that holds "-->" parses
\* it as SRT when a comma-decimal timestamp occurs anywhere in it, as WebVTT
\* otherwise.
FallbackByCommaTimestamp ==
    [][(CallEnds /\ NoRuleMatches /\ Includes(content, "-->")) =>
        format' = IF \E i \in 1..Len(content) : CommaTimestampAt(content, i)
                  THEN "srt" ELSE "vtt"]_vars

\* A document without rule whose first block is timed with a dot and whose
\* second block with a comma has been parsed as SRT.
LateCommaTimestampParsed ==
    /\ pc = "parsed" /\ NoRuleMatches /\ format = "srt" /\ Len(blocks) = 2
    /\ ~\E i \in 1..Len(blocks[1]) : CommaTimestampAt(blocks[1], i)
    /\ Includes(blocks[1], "-->")
    /\ \E i \in 1..Len(blocks[2]) : CommaTimestampAt(blocks[2], i)

\* C9: every cue returned has 0 <= startTime <= endTime.
TimesOrdered ==
    \A i \in 1..Len(cues) :
        /\ ~cues[i].startTime.nan /\ ~cues[i].endTime.nan
        /\ 0 <= cues[i].startTime.ms
        /\ cues[i].startTime.ms <= cues[i].endTime.ms

MaxTracks == 2

Retrieved(src, text) == [src |-> src, fails |-> "no", text |-> text]

Tracks ==
    {[src |-> "https://cdn/en.vtt", fails |-> "fetch", text |-> ""],
     [src |-> "https://cdn/fr.ass", fails |-> "text", text |-> ""],
     Retrieved("https://cdn/en.vtt", "WEBVTT\n\n00:01.000 --> 00:02.000\nHello"),
     Retrieved("https://cdn/de.srt", "1\n00:00:03,000 --> 00:00:05,000\n<i>Hallo</i>"),
     Retrieved("https://cdn/missing", "404 Not Found")}

TrackLists == UNION {[1..n -> Tracks] : n \in 0..MaxTracks}

\* What an await of parseSubtitles(url) ends with: the promise resolved with
\* cues, or rejected.
Resolved(cs) == [rejected |-> FALSE, cues |-> cs]

Rejected == [rejected |-> TRUE, cues |-> <<>>]

\* parseSubtitles without its try/catch: a failed retrieval rejects the promise.
parseSubtitlesWithoutCatch(track, dflt) ==
    IF track.fails # "no" THEN Rejected
    ELSE Let(parseSubtitlesFromString(track.text, track.src, dflt), LAMBDA r :
             IF r.threw THEN Rejected ELSE Resolved(r.cues))

\* parseSubtitles(url): fetch, response.text() and parseSubtitlesFromString
\* run inside try; the catch returns [].
parseSubtitles(track, dflt) ==
    IF track.fails # "no" THEN Resolved(<<>>)
    ELSE Let(parseSubtitlesFromString(track.text, track.src, dflt), LAMBDA r :
             IF r.threw THEN Resolved(<<>>) ELSE Resolved(r.cues))

\* subtitles.findIndex(sub => sub.default): the index of the first default
\* track, -1 when there is none.
RECURSIVE findIndexOfDefault(_, _)
findIndexOfDefault(list, i) ==
    IF i >= Len(list) THEN -1
    ELSE IF "default" \in DOMAIN list[i + 1] /\ list[i + 1].default THEN i
    ELSE findIndexOfDefault(list, i + 1)

\* getInitialSubtitleIndex(): null without tracks, else the default track, else 0.
getInitialSubtitleIndex(list) ==
    IF Len(list) = 0 THEN NoSubtitle
    ELSE IF findIndexOfDefault(list, 0) >= 0 THEN findIndexOfDefault(list, 0)
    ELSE 0

\* The player is mounted with its tracks; nothing is parsed, nothing plays.
InitPlayer ==
    /\ subtitles \in TrackLists
    /\ trackIndex = 0
    /\ newParsedSubtitles = <<>>
    /\ parsedSubtitles = <<>>
    /\ loader = "idle"
    /\ isPlaying = FALSE
    /\ error = Null
    /\ staleRuns = <<>>
    /\ selectedSubtitle = getInitialSubtitleIndex(subtitles)
    /\ family = "none"
    /\ head = ""
    /\ blocks = <<>>
    /\ content = ""
    /\ sourceName = ""
    /\ DEFAULT_STYLE = BuiltInDefaultStyle
    /\ calls = <<>>
    /\ Idle

parserVars == <<family, head, blocks, content, sourceName,
                pc, format, outcome, cues, currentTime, currentCue, currentText, calls>>

\* The effect on [subtitles]: loadSubtitles() starts when there are tracks.
LoadSubtitles ==
    /\ loader = "idle"
    /\ Len(subtitles) > 0
    /\ loader' = "loading"
    /\ trackIndex' = 0
    /\ newParsedSubtitles' = <<>>
    /\ UNCHANGED <<subtitles, parsedSubtitles, isPlaying, error, DEFAULT_STYLE>>
    /\ UNCHANGED parserVars
    /\ UNCHANGED <<staleRuns, selectedSubtitle>>

\* One turn of the loop: const cues = await parseSubtitles(subtitle.src);
\* newParsedSubtitles[i] = cues.  A rejected await ends loadSubtitles there:
\* nothing catches it.
LoadTrack ==
    /\ loader = "loading"
    /\ trackIndex < Len(subtitles)
    /\ \E r \in {parseSubtitles(subtitles[trackIndex + 1], DEFAULT_STYLE)} :
          IF r.rejected
          THEN /\ loader' = "aborted"
               /\ UNCHANGED <<trackIndex, newParsedSubtitles>>
          ELSE /\ newParsedSubtitles' = Append(newParsedSubtitles, r.cues)
               /\ trackIndex' = trackIndex + 1
               /\ UNCHANGED loader
    /\ DEFAULT_STYLE' = DefaultStyleAfter(subtitles[trackIndex + 1].text, DEFAULT_STYLE)
    /\ UNCHANGED <<subtitles, parsedSubtitles, isPlaying, error>>
    /\ UNCHANGED parserVars
    /\ UNCHANGED <<staleRuns, selectedSubtitle>>

\* After the loop: setParsedSubtitles(newParsedSubtitles)
SetParsedSubtitles ==
    /\ loader = "loading"
    /\ trackIndex = Len(subtitles)
    /\ parsedSubtitles' = newParsedSubtitles
    /\ loader' = "done"
    /\ UNCHANGED <<subtitles, trackIndex, newParsedSubtitles, isPlaying, error, DEFAULT_STYLE>>
    /\ UNCHANGED parserVars
    /\ UNCHANGED <<staleRuns, selectedSubtitle>>

\* handlePlay, and handlePause / handleEnded: the video element's events.
HandlePlay ==
    /\ ~isPlaying
    /\ isPlaying' = TRUE
    /\ UNCHANGED <<subtitles, trackIndex, newParsedSubtitles, parsedSubtitles, loader,
                   error, DEFAULT_STYLE>>
    /\ UNCHANGED parserVars
    /\ UNCHANGED <<staleRuns, selectedSubtitle>>

HandlePause ==
    /\ isPlaying
    /\ isPlaying' = FALSE
    /\ UNCHANGED <<subtitles, trackIndex, newParsedSubtitles, parsedSubtitles, loader,
                   error, DEFAULT_STYLE>>
    /\ UNCHANGED parserVars
    /\ UNCHANGED <<staleRuns, selectedSubtitle>>

\* handleError: the video element reports a playback error.
HandleError ==
    /\ error = Null
    /\ error' = [message |-> "Unknown video playback error"]
    /\ UNCHANGED <<subtitles, trackIndex, newParsedSubtitles, parsedSubtitles, loader,
                   isPlaying, DEFAULT_STYLE>>
    /\ UNCHANGED parserVars
    /\ UNCHANGED <<staleRuns, selectedSubtitle>>

NextPlayer ==
    \/ LoadSubtitles
    \/ LoadTrack
    \/ SetParsedSubtitles
    \/ HandlePlay
    \/ HandlePause
    \/ HandleError

SpecPlayer == InitPlayer /\ [][NextPlayer]_vars

\* The cues of a retrieved text, as the parser returns them.
CuesOfText(track) == parseSubtitlesFromString(track.text, track.src, BuiltInDefaultStyle).cues

\* A step of loadSubtitles.
LoaderSteps == loader' # loader \/ trackIndex' # trackIndex

\* C11: a track whose retrieval fails gets the empty cue sequence, the tracks
\* after it are still loaded (loadSubtitles is never cut short and ends with
\* every track's cues set), and no step of loadSubtitles changes isPlaying or
\* error.
FailedTrackGivesNoCues ==
    [][/\ loader' # "aborted"
       /\ loader' = "done" =>
             /\ Len(parsedSubtitles') = Len(subtitles)
             /\ \A k \in 1..Len(subtitles) :
                   parsedSubtitles'[k] = IF subtitles[k].fails # "no" THEN <<>>
                                         ELSE CuesOfText(subtitles[k])
       /\ LoaderSteps => UNCHANGED <<isPlaying, error>>]_vars

\* The first track's retrieval failed, the second track has its cues, and the
\* video is playing.
LaterTrackLoadedAfterFailure ==
    /\ loader = "done" /\ Len(subtitles) = 2
    /\ subtitles[1].fails # "no" /\ parsedSubtitles[1] = <<>>
    /\ subtitles[2].fails = "no" /\ parsedSubtitles[2] # <<>>
    /\ isPlaying /\ error = Null

(***************************************************************************)
(* ASS documents by case: style tables with and without a Default entry,  *)
(* with repeated names and with no row at all, and Dialogue rows that      *)
(* name a style of the table, another style or none.                       *)
(***************************************************************************)
StyleFormat == "Format: Name, Fontname, Fontsize, Bold, Italic"

EventFormat == "Format: Layer, Start, End, Style, Text"

\* A document head: a [V4+ Styles] section of the given Style rows, then the
\* head of the [Events] section.
StyleSection(rows) ==
    Join(<<"[V4+ Styles]", StyleFormat>> \o rows \o <<"", "[Events]", EventFormat>>, "\n")

\* A Style row of the table, by its values.
Row(name, font, size, bold, italic) ==
    [name |-> name, font |-> font, size |-> size, bold |-> bold, italic |-> italic]

StyleLine(r) == "Style: " \o Join(<<r.name, r.font, r.size, r.bold, r.italic>>, ",")

StyleLines(table) == [i \in 1..Len(table) |-> StyleLine(table[i])]

StyleTables ==
    {<<Row("Default", "Arial", "20", "0", "0"), Row("Alt", "Verdana", "30", "-1", "0")>>,
     <<Row("Alt", "Verdana", "30", "-1", "0"), Row("Other", "Courier", "10", "0", "1")>>,
     <<Row("Default", "Arial", "20", "0", "0"), Row("Default", "Verdana", "30", "-1", "1")>>,
     <<Row("Alt", "Arial", "20", "0", "0"), Row("alt", "Verdana", "30", "-1", "1"),
       Row("Alt", "Courier", "10", "0", "1")>>,
     <<>>}

StyleHeads ==
    {StyleSection(StyleLines(table)) : table \in StyleTables} \cup {"[Events]\n" \o EventFormat}

StyledRows ==
    {"Dialogue: 0,0:00:01.00,0:00:02.00," \o name \o ",Hi" :
        name \in {"Default", "Alt", "alt", "Missing", ""}}

\* The head most cases are written under: the first table, Default and Alt.
PlainHead ==
    StyleSection(StyleLines(<<Row("Default", "Arial", "20", "0", "0"),
                              Row("Alt", "Verdana", "30", "-1", "0")>>))

\* A Dialogue row of style Default with the given text.
TextRow(text) == "Dialogue: 0,0:00:01.00,0:00:02.00,Default," \o text

\* Dialogue texts by their alignment tags: the text, the number of its first
\* \an tag that has digits (-1 without one), and the text without its \an
\* tags.
Aligned(text, code, without) == [text |-> text, code |-> code, without |-> without]

AlignmentCases ==
    {Aligned("{\\an" \o NatToString(n) \o "}Hi", n, "{}Hi") : n \in 0..11}
    \cup {Aligned("Hi", -1, "Hi"),
          Aligned("{\\b1}Hi", -1, "{\\b1}Hi"),
          Aligned("{\\anx}Hi", -1, "{x}Hi"),
          Aligned("{\\an}Hi{\\an7}", 7, "{}Hi{}"),
          Aligned("Hi{\\an9}there{\\an1}", 9, "Hi{}there{}"),
          Aligned("\\an4 Hi", 4, "Hi"),
          Aligned("{\\b1\\an6\\i1}Hi{\\b0}you", 6, "{\\b1\\i1}Hi{\\b0}you"),
          Aligned("{\\an07}Hi", 7, "{}Hi"),
          Aligned("{\\i1}a{\\an8\\fs30}b", 8, "{\\i1}a{\\fs30}b")}

\* Dialogue texts by their override blocks: at most MaxOverrides blocks,
\* each followed by one letter of text.
MaxOverrides == 3

OverrideBlocks ==
    {"{\\b1}", "{\\b0}", "{\\i1}", "{\\fs30}", "{\\c&H0000FF&}", "{\\b1\\i0}",
     "{\\pos(10,20)}"}

OverrideLists == UNION {[1..n -> OverrideBlocks] : n \in 1..MaxOverrides}

Letter(k) == Char("abcdefgh", k)

RECURSIVE OverrideText(_, _)
OverrideText(bs, k) ==
    IF k > Len(bs) THEN "" ELSE bs[k] \o Letter(k) \o OverrideText(bs, k + 1)

BoldNormalRow == TextRow("{\\b1}Bold{\\b0}Normal")

\* A document head with the given Format lines and Style rows.
TablesHead(styleFormat, rows, eventFormat) ==
    Join(<<"[V4+ Styles]", styleFormat>> \o rows \o <<"", "[Events]", eventFormat>>, "\n")

\* Dialogue rows by their commas: the Format line, the row, and the style
\* name and the text the row has.
CommaRow(fmt, row, style, text) == [format |-> fmt, row |-> row, style |-> style, text |-> text]

TextBeforeStyle == "Format: Layer, Start, End, Text, Style"

CommaRows ==
    {CommaRow(EventFormat, "Dialogue: 0,0:00:01.00,0:00:02.00,Default,Hello, world",
              "Default", "Hello, world"),
     CommaRow(EventFormat, "Dialogue: 0,0:00:01.00,0:00:02.00,Default,a,b,c", "Default", "a,b,c"),
     CommaRow(EventFormat, "Dialogue: 0,0:00:01.00,0:00:02.00,Alt,,x", "Alt", ",x"),
     CommaRow(EventFormat, "Dialogue: 0,0:00:01.00,0:00:02.00,Default,a,,b,", "Default", "a,,b,"),
     CommaRow(EventFormat, "Dialogue: 0,0:00:01.00,0:00:02.00,Alt, one , two ", "Alt", "one , two"),
     CommaRow(EventFormat, "Dialogue: 0,0:00:01.00,0:00:02.00,Default,Hi", "Default", "Hi"),
     CommaRow(EventFormat, "Dialogue: 0,0:00:01.00,0:00:02.00,Alt", "Alt", ""),
     CommaRow(TextBeforeStyle, "Dialogue: 0,0:00:01.00,0:00:02.00,Hi,Alt", "Alt", "Hi"),
     CommaRow(TextBeforeStyle, "Dialogue: 0,0:00:01.00,0:00:02.00,Hi,Alt,x", "Alt,x", "Hi"),
     CommaRow("Format: Text", "Dialogue: a,b", "Default", "a,b"),
     CommaRow("Format: Style, Text", "Dialogue: Alt,a, b,c", "Alt", "a, b,c")}

CommaHead(fmt) ==
    TablesHead(StyleFormat,
               StyleLines(<<Row("Default", "Arial", "20", "0", "0"),
                            Row("Alt", "Verdana", "30", "-1", "0")>>),
               fmt)

\* Style rows by their commas: the row, and the weight and the slant its
\* entry has.
CommaStyle(row, weight, slant) == [row |-> row, weight |-> weight, slant |-> slant]

CommaStyles ==
    {CommaStyle("Style: Default,Arial,20,-1,-1", "bold", "italic"),
     CommaStyle("Style: Default,Arial,20,-1,-1,1", "bold", "normal"),
     CommaStyle("Style: Default,Arial,20,-1,0,-1", "bold", "normal"),
     CommaStyle("Style: Default,Arial,20,-1", "bold", "normal"),
     CommaStyle("Style: Default,Arial,20,0,1,,", "normal", "normal")}

\* Documents by the order of their columns: the same Style rows and the same
\* Dialogue rows, the columns of each table in any order.
StyleColumns == <<"Name", "Fontname", "Fontsize", "Bold", "Italic">>

EventColumns == <<"Layer", "Start", "End", "Style", "Text">>

ColumnStyleRows ==
    <<<<"Default", "Arial", "20", "0", "0">>, <<"Alt", "Verdana", "30", "-1", "1">>>>

ColumnEventRows ==
    <<<<"0", "0:00:03.00", "0:00:04.00", "Alt", "{\\b0}Hi">>,
      <<"1", "0:00:01.00", "0:00:02.00", "Default", "Yo">>>>

DeclaredOrder == <<1, 2, 3, 4, 5>>

ColumnOrders == {order \in [1..5 -> 1..5] : \A i, j \in 1..5 : order[i] = order[j] => i = j}

InOrder(values, order) == [i \in 1..Len(order) |-> values[order[i]]]

ColumnsHead(styleOrder, eventOrder) ==
    TablesHead("Format: " \o Join(InOrder(StyleColumns, styleOrder), ", "),
               [i \in 1..Len(ColumnStyleRows) |->
                   "Style: " \o Join(InOrder(ColumnStyleRows[i], styleOrder), ",")],
               "Format: " \o Join(InOrder(EventColumns, eventOrder), ", "))

ColumnsRows(eventOrder) ==
    [i \in 1..Len(ColumnEventRows) |->
        "Dialogue: " \o Join(InOrder(ColumnEventRows[i], eventOrder), ",")]

\* One table reordered, or both alike.
ColumnCases ==
    {<<order, DeclaredOrder>> : order \in ColumnOrders}
    \cup {<<DeclaredOrder, order>> : order \in ColumnOrders}
    \cup {<<order, order>> : order \in ColumnOrders}

\* A timestamp as written and the milliseconds it stands for.
Stamp(text, ms) == [text |-> text, ms |-> ms]

\* Start times of Dialogue rows by their form, with the milliseconds they
\* stand for; 0 for the ones that are not of the form H:MM:SS.CC.
AssStamps ==
    {Stamp("1:02:03.45", 3723450), Stamp("0:00:01.00", 1000), Stamp("12:34:56.78", 45296780),
     Stamp(" 0:00:05.50 ", 5500), Stamp("0:99:99.99", 6039990),
     Stamp("1:02:03.456", 0), Stamp("x1:02:03.45", 0), Stamp("1:02:03.45x", 0),
     Stamp("0:1:02:03.45", 0), Stamp("1:02:03.45.67", 0),
     Stamp("1:2:03.45", 0), Stamp("1:02:03", 0), Stamp("1:02:03,45", 0),
     Stamp("1:02:03.4", 0), Stamp(":02:03.45", 0), Stamp("abc", 0), Stamp("62", 0)}

StampedRow(stamp) == "Dialogue: 0," \o stamp \o ",9:59:59.00,Default,Hi"

\* ASS colours &Hbbggrr& with the CSS colour #rrggbb of the same bytes.
Colour(ass, css) == [ass |-> ass, css |-> css]

Colours ==
    {Colour("&H0000FF&", "#ff0000"), Colour("&HFF0000&", "#0000ff"),
     Colour("&H00ff00&", "#00ff00"), Colour("&H123456&", "#563412"),
     Colour("&Hab12Cd&", "#cd12ab"), Colour("&H000000&", "#000000")}

ColourFormat == "Format: Name, Fontname, Fontsize, PrimaryColour"

\* The colour as the primary colour of the style Default.
ColourHead(ass) == TablesHead(ColourFormat, <<"Style: Default,Arial,20," \o ass>>, EventFormat)

\* The colour in a \c override tag.
ColourRow(ass) == TextRow("{\\c" \o ass \o "}Hi")

\* Style rows by their numeric fields, with the font size and the transform
\* the documented defaults give (font size 20, angle 0, scales 100).
NumericFormat == "Format: Name, Fontname, Fontsize, Angle, ScaleX, ScaleY"

Numeric(row, size, transform) == [row |-> row, size |-> size, transform |-> transform]

NumericStyles ==
    {Numeric("Style: Default,Arial,24,45,150,50", "24px", "rotate(-45deg) scale(1.5, 0.5)"),
     Numeric("Style: Default,Arial,20,0,100,100", "20px", "rotate(0deg) scale(1, 1)"),
     Numeric("Style: Default,Arial,,,,", "20px", "rotate(0deg) scale(1, 1)"),
     Numeric("Style: Default,Arial", "20px", "rotate(0deg) scale(1, 1)"),
     Numeric("Style: Default,Arial,24,,,", "24px", "rotate(0deg) scale(1, 1)"),
     Numeric("Style: Default,Arial,x,0,100,100", "20px", "rotate(0deg) scale(1, 1)"),
     Numeric("Style: Default,Arial,20,abc,100,100", "20px", "rotate(0deg) scale(1, 1)"),
     Numeric("Style: Default,Arial,20,0,big,100", "20px", "rotate(0deg) scale(1, 1)"),
     Numeric("Style: Default,Arial,20,0,100,tall", "20px", "rotate(0deg) scale(1, 1)"),
     Numeric("Style: Default,Arial,20,90,200,tall", "20px", "rotate(-90deg) scale(2, 1)")}

NumericHead(row) == TablesHead(NumericFormat, <<row>>, EventFormat)

\* Dialogue texts by their underline and strike blocks, under a style
\* Default that is underlined (flag "1") or not (flag "0").
UnderlineBlocks == {"{\\u1}", "{\\u0}", "{\\s1}", "{\\b1\\u0}", "{\\i1}"}

UnderlineLists == UNION {[1..n -> UnderlineBlocks] : n \in 1..MaxOverrides}

UnderlineFormat == "Format: Name, Fontname, Fontsize, Underline, StrikeOut"

UnderlineHead(flag) ==
    TablesHead(UnderlineFormat, <<"Style: Default,Arial,20," \o flag \o ",0">>, EventFormat)

InitAss ==
    /\ family = "ass"
    /\ \/ head \in StyleHeads /\ blocks \in {<<row>> : row \in StyledRows}
       \/ head = PlainHead /\ blocks \in {<<TextRow(a.text)>> : a \in AlignmentCases}
       \/ head = PlainHead /\ blocks \in {<<TextRow(OverrideText(bs, 1))>> : bs \in OverrideLists}
       \/ head = PlainHead /\ blocks = <<BoldNormalRow>>
       \/ \E c \in CommaRows : head = CommaHead(c.format) /\ blocks = <<c.row>>
       \/ \E c \in CommaStyles :
             head = TablesHead(StyleFormat, <<c.row>>, EventFormat) /\ blocks = <<TextRow("Hi")>>
       \/ \E c \in ColumnCases : head = ColumnsHead(c[1], c[2]) /\ blocks = ColumnsRows(c[2])
       \/ head = PlainHead /\ blocks \in {<<StampedRow(t.text)>> : t \in AssStamps}
       \/ \E c \in Colours : head = ColourHead(c.ass) /\ blocks = <<TextRow("Hi")>>
       \/ head = PlainHead /\ blocks \in {<<ColourRow(c.ass)>> : c \in Colours}
       \/ \E c \in NumericStyles : head = NumericHead(c.row) /\ blocks = <<TextRow("Hi")>>
       \/ /\ head \in {UnderlineHead("0"), UnderlineHead("1")}
          /\ blocks \in {<<TextRow(OverrideText(bs, 1))>> : bs \in UnderlineLists}
    /\ content = Render(family, head, blocks)
    /\ sourceName = "clip.ass"
    /\ DEFAULT_STYLE = BuiltInDefaultStyle
    /\ calls = <<>>
    /\ Idle
    /\ NoPlayer

SpecAss == InitAss /\ [][ParseSubtitlesFromString]_vars

\* The style table and the events of the document at hand, in the order the
\* call maps them to cues.
StyleTable == parseASSStyles(Trim(content))

EventsInCueOrder == SortEvents(DialogueRows)

\* The base style of an event as the specification resolves it: the entry of
\* that name, else the entry "Default", else the first entry, else the
\* built-in default.
ResolvedWithFallback(table, name) ==
    IF MapHas(table, name) THEN MapGet(table, name)
    ELSE IF MapHas(table, "Default") THEN MapGet(table, "Default")
    ELSE IF Len(table) > 0 THEN table[1][2]
    ELSE BuiltInDefaultStyle

\* C12: every cue of an ASS call is the cue of its event on the base style of
\* the event's name in the style table, else of "Default" in the table, else
\* of the table's first entry, else the built-in default.
BaseStyleFallsBack ==
    [][(CallEnds /\ format' = "ass") =>
        Let(StyleTable, LAMBDA table :
        Let(EventsInCueOrder, LAMBDA events :
            cues' = [i \in 1..Len(events) |->
                        ASSCue(events[i], <<>>,
                               ResolvedWithFallback(table, events[i].style))]))]_vars

\* The Style rows the document at hand was written from.
RowsOfHead ==
    IF \E table \in StyleTables : head = StyleSection(StyleLines(table))
    THEN CHOOSE table \in StyleTables : head = StyleSection(StyleLines(table))
    ELSE <<>>

\* The entry of the style table shows the values of the Style row r.
EntryShows(entry, r) ==
    /\ entry.fontFamily = r.font
    /\ entry.fontSize = r.size \o "px"
    /\ entry.fontWeight = (IF r.bold \in {"1", "-1"} THEN "bold" ELSE "normal")
    /\ entry.fontStyle = (IF r.italic \in {"1", "-1"} THEN "italic" ELSE "normal")

\* C13: the style table has one entry per name, names compared with their
\* case, and the entry of a name shows the values of the first Style row of
\* that name.
FirstStyleRowWins ==
    (pc = "parsed" /\ head \in StyleHeads) =>
        Let(RowsOfHead, LAMBDA rows :
        Let(StyleTable, LAMBDA table :
            /\ Len(table) = Cardinality({rows[i].name : i \in 1..Len(rows)})
            /\ \A i \in 1..Len(rows) :
                  (\A j \in 1..(i - 1) : rows[j].name # rows[i].name)
                      => /\ MapHas(table, rows[i].name)
                         /\ EntryShows(MapGet(table, rows[i].name), rows[i])))

\* The styles of the segments of a cue's lines, line by line.
SegmentStyles(lines) ==
    [i \in 1..Len(lines) |-> [j \in 1..Len(lines[i]) |-> lines[i][j].style]]

\* The style the table of PlainHead gives the rows of style Default.
PlainBase ==
    [EmptyStyle EXCEPT !.fontFamily = "Arial", !.fontSize = "20px",
                       !.fontWeight = "normal", !.fontStyle = "normal",
                       !.textDecoration = "", !.transform = "rotate(0deg) scale(1, 1)"]

\* C14: the cue of a Dialogue row is aligned by the number of the first \an
\* tag of its text: left for 1, 4, 7, right for 3, 6, 9, else center; top for
\* 7, 8, 9, middle for 4, 5, 6, else bottom; center and bottom without a tag;
\* and its segments have the styles they have without the \an tags.
AlignedByFirstTag ==
    [][CallEnds =>
        \A a \in AlignmentCases :
            (head = PlainHead /\ blocks = <<TextRow(a.text)>>) =>
                /\ Len(cues') = 1
                /\ cues'[1].alignment = (IF a.code \in {1, 4, 7} THEN "left"
                                         ELSE IF a.code \in {3, 6, 9} THEN "right"
                                         ELSE "center")
                /\ cues'[1].verticalAlign = (IF a.code \in {7, 8, 9} THEN "top"
                                             ELSE IF a.code \in {4, 5, 6} THEN "middle"
                                             ELSE "bottom")
                /\ SegmentStyles(cues'[1].lines)
                       = SegmentStyles(parseASSDialogueText(a.without, PlainBase).lines)]_vars

\* A row whose text has the tag \an7 after an \an without number has been
\* parsed into a cue at the top left.
TopLeftCueParsed ==
    /\ pc = "parsed" /\ blocks = <<TextRow("{\\an}Hi{\\an7}")>>
    /\ Len(cues) = 1 /\ cues[1].alignment = "left" /\ cues[1].verticalAlign = "top"

\* What an override block sets: the attributes it names with their values,
\* Undefined for the attributes it leaves alone.
Sets(block) ==
    CASE block = "{\\b1}" -> [EmptyStyle EXCEPT !.fontWeight = "bold"]
      [] block = "{\\b0}" -> [EmptyStyle EXCEPT !.fontWeight = "normal"]
      [] block = "{\\i1}" -> [EmptyStyle EXCEPT !.fontStyle = "italic"]
      [] block = "{\\fs30}" -> [EmptyStyle EXCEPT !.fontSize = "30px"]
      [] block = "{\\c&H0000FF&}" -> [EmptyStyle EXCEPT !.color = "#FF0000"]
      [] block = "{\\b1\\i0}" -> [EmptyStyle EXCEPT !.fontWeight = "bold", !.fontStyle = "normal"]
      [] OTHER -> EmptyStyle

\* The running style after the first k blocks of bs: each attribute as the
\* last of those blocks that sets it left it, else as the base style has it.
RunningStyle(bs, k) ==
    [f \in DOMAIN PlainBase |->
        Let({j \in 1..k : Sets(bs[j])[f] # Undefined}, LAMBDA setters :
            IF setters = {} THEN PlainBase[f] ELSE Sets(bs[Max(setters)])[f])]

\* C15: the segment after the k-th override block of a cue has the base
\* style with the blocks 1..k applied in order: every attribute is as the
\* last block that sets it left it, a block without recognized tag changes
\* nothing; and "{\b1}Bold{\b0}Normal" gives the segments Bold (bold) and
\* Normal (normal) with the text "BoldNormal".
RunningStyleAcrossBlocks ==
    [][CallEnds =>
        /\ \A bs \in OverrideLists :
               (head = PlainHead /\ blocks = <<TextRow(OverrideText(bs, 1))>>) =>
                   /\ Len(cues') = 1
                   /\ cues'[1].text = OverrideText([k \in 1..Len(bs) |-> ""], 1)
                   /\ cues'[1].lines =
                          <<[k \in 1..Len(bs) |->
                                [text |-> Letter(k), style |-> RunningStyle(bs, k)]]>>
        /\ (head = PlainHead /\ blocks = <<BoldNormalRow>>) =>
               /\ Len(cues') = 1
               /\ cues'[1].text = "BoldNormal"
               /\ cues'[1].lines =
                      <<<<[text |-> "Bold", style |-> [PlainBase EXCEPT !.fontWeight = "bold"]],
                          [text |-> "Normal", style |-> PlainBase]>>>>]_vars

\* A row whose first block sets bold, whose second sets italic and whose
\* third has no recognized tag has been parsed: the last segment is bold and
\* italic.
BoldKeptAcrossBlocks ==
    /\ pc = "parsed"
    /\ blocks = <<TextRow("{\\b1}a{\\i1}b{\\pos(10,20)}c")>>
    /\ Len(cues) = 1 /\ Len(cues[1].lines) = 1 /\ Len(cues[1].lines[1]) = 3
    /\ cues[1].lines[1][3].style.fontWeight = "bold"
    /\ cues[1].lines[1][3].style.fontStyle = "italic"

\* The number of commas of s.
Commas(s) == Cardinality({i \in 1..Len(s) : Char(s, i) = ","})

\* What a row holds after its "Dialogue:" or "Style:".
RowBody(row, prefix) == Trim(ReplaceFirst(row, prefix, ""))

DeclaredDocument ==
    Render("ass", ColumnsHead(DeclaredOrder, DeclaredOrder), ColumnsRows(DeclaredOrder))

ColumnHeads == {ColumnsHead(c[1], c[2]) : c \in ColumnCases}

\* C19: documents that differ only in the order of the columns of their
\* Format lines, the rows' values in the same order, have the same style
\* table and the same cues.
ColumnOrderIrrelevant ==
    [][(CallEnds /\ head \in ColumnHeads) =>
        /\ StyleTable = parseASSStyles(Trim(DeclaredDocument))
        /\ cues' = parseSubtitlesFromString(DeclaredDocument, "clip.ass", BuiltInDefaultStyle).cues]_vars

\* A document with the Text column first and the Name column last has been
\* parsed: the cues are in time order, the second in the style of its row.
ReorderedColumnsParsed ==
    /\ pc = "parsed"
    /\ head = ColumnsHead(<<5, 4, 3, 2, 1>>, <<5, 4, 3, 2, 1>>)
    /\ Len(cues) = 2 /\ cues[1].text = "Yo" /\ cues[2].text = "Hi"
    /\ cues[2].lines[1][1].style.fontFamily = "Verdana"
    /\ cues[2].lines[1][1].style.fontWeight = "normal"
    /\ cues[2].lines[1][1].style.fontStyle = "italic"

\* C21: the start time of a Dialogue row is h*3600 + m*60 + s + cs/100 when
\* the whole Start value has the form H:MM:SS.CC, and 0 for every other
\* value: three fractional digits, characters before or after the timestamp.
WholeStampOrZero ==
    [][CallEnds =>
        \A t \in AssStamps :
            (head = PlainHead /\ blocks = <<StampedRow(t.text)>>) =>
                /\ Len(cues') = 1
                /\ cues'[1].startTime = Num(t.ms)]_vars

\* C22: the ASS colour &Hbbggrr& becomes the CSS colour #rrggbb, blue and
\* red bytes swapped ("&H0000FF&" becomes "#ff0000"), as the primary colour
\* of a Style row and in a \c override tag alike.
ColourBytesSwapped ==
    [][CallEnds =>
        \A c \in Colours :
            ((head = ColourHead(c.ass) /\ blocks = <<TextRow("Hi")>>)
                \/ (head = PlainHead /\ blocks = <<ColourRow(c.ass)>>)) =>
                /\ Len(cues') = 1
                /\ cues'[1].lines[1][1].style.color = c.css]_vars

\* C23: a numeric field of a Style row that is missing or no number counts
\* as its default (font size 20, angle 0, scales 100): the style of the
\* row's cues has that font size and transform, and no NaN in it.
NumericDefaultsApplied ==
    [][CallEnds =>
        \A c \in NumericStyles :
            head = NumericHead(c.row) =>
                /\ Len(cues') = 1
                /\ cues'[1].lines[1][1].style.fontSize = c.size
                /\ cues'[1].lines[1][1].style.transform = c.transform
                /\ ~Includes(cues'[1].lines[1][1].style.transform, "NaN")]_vars

\* C24: underline is never turned off inside a cue: the segment after the
\* k-th block is underlined when the base style is underlined or one of the
\* blocks 1..k holds \u1, whatever the blocks after that one hold (\u0, \s1).
UnderlineStaysOn ==
    [][CallEnds =>
        \A flag \in {"0", "1"} :
            head = UnderlineHead(flag) =>
                \A bs \in UnderlineLists :
                    blocks = <<TextRow(OverrideText(bs, 1))>> =>
                        /\ Len(cues') = 1
                        /\ Len(cues'[1].lines) = 1
                        /\ Len(cues'[1].lines[1]) = Len(bs)
                        /\ \A k \in 1..Len(bs) :
                              (flag = "1" \/ \E j \in 1..k : Includes(bs[j], "\\u1"))
                                  => HasDecoration(cues'[1].lines[1][k].style, "underline")]_vars

\* A row whose first block sets underline, whose second holds \u0 and whose
\* third sets the strike has been parsed: the last segment is underlined and
\* struck.
UnderlineKeptAfterStrike ==
    /\ pc = "parsed"
    /\ head = UnderlineHead("0")
    /\ blocks = <<TextRow("{\\u1}a{\\u0}b{\\s1}c")>>
    /\ Len(cues) = 1
    /\ cues[1].lines[1][2].style.textDecoration = "underline"
    /\ cues[1].lines[1][3].style.textDecoration = "underline line-through"

(***************************************************************************)
(* WebVTT and SRT documents by case: one block under a name that selects   *)
(* the parser.                                                             *)
(***************************************************************************)
\* Cue texts by their tags: at most MaxTags tags with one letter of text
\* before the first tag and after every tag.
MaxTags == 3

OpeningTags == {"<b>", "<i>", "<font color=\"red\">", "<c.bg_blue>"}

ClosingTags == {"</b>", "</i>"}

TagLists == UNION {[1..n -> OpeningTags \cup ClosingTags] : n \in 1..MaxTags}

RECURSIVE TaggedFrom(_, _)
TaggedFrom(tags, k) ==
    IF k > Len(tags) THEN "" ELSE tags[k] \o Letter(k + 1) \o TaggedFrom(tags, k + 1)

TaggedText(tags) == Letter(1) \o TaggedFrom(tags, 1)

\* A block with a well-formed timing line and the given text.
TimedBlock(text) == "00:01.000 --> 00:02.000\n" \o text

\* Blocks by what they hold: a timing line with text, with a counter line
\* before it, without text, without a start, and no timing line at all.
BlockCases ==
    {"00:01.000 --> 00:02.000\nHello",
     "1\n00:00:01,000 --> 00:00:02,000\nHello\n<i>there</i>",
     "1\n00:00:01,000 --> 00:00:02,000",
     "--> 00:02\nx",
     "NOTE no timing here\nat all",
     "Hello"}

\* Start timestamps by their parts, with the milliseconds they stand for; 0
\* for the ones that are no timestamp.
Stamps ==
    {Stamp("01:02:03.500", 3723500), Stamp("00:00:01,500", 1500), Stamp("1:2:3", 3723000),
     Stamp("02:03.250", 123250), Stamp("90:00", 5400000),
     Stamp("5", 5000), Stamp("7.5", 7500), Stamp("1,5", 1500),
     Stamp("abc", 0), Stamp("1:2:3:4", 0), Stamp("::::", 0),
     Stamp("ab:00:01", 0), Stamp("00:xx:01", 0), Stamp("00:00:1s", 0),
     Stamp("1:xx", 0), Stamp("x:30", 0)}

StampedBlock(stamp) == stamp \o " --> 99:00:00.000\nHi"

\* Cue texts by the tags the scan meets: opening tags the tokenizer knows
\* (<b>, <u>) and one it does not (<x>), a closing tag (</i>) and a tag
\* that has no name (<!>), at most MaxTags of them.
ScanOpeningTags == {"<b>", "<u>", "<x>"}

ScanClosingTags == {"</i>"}

ScanLists == UNION {[1..n -> ScanOpeningTags \cup ScanClosingTags \cup {"<!>"}] : n \in 1..MaxTags}

InitTimed ==
    /\ family = "timed"
    /\ \/ /\ head = "WEBVTT"
          /\ blocks \in {<<TimedBlock(TaggedText(tags))>> : tags \in TagLists}
          /\ sourceName = "clip.vtt"
       \/ /\ head = ""
          /\ blocks \in {<<block>> : block \in BlockCases}
          /\ sourceName \in {"clip.vtt", "clip.srt"}
       \/ /\ head = ""
          /\ blocks \in {<<StampedBlock(t.text)>> : t \in Stamps}
          /\ sourceName \in {"clip.vtt", "clip.srt"}
       \/ /\ head = "WEBVTT"
          /\ blocks \in {<<TimedBlock(TaggedText(tags))>> : tags \in ScanLists}
          /\ sourceName = "scan.vtt"
    /\ content = Render(family, head, blocks)
    /\ DEFAULT_STYLE = BuiltInDefaultStyle
    /\ calls = <<>>
    /\ Idle
    /\ NoPlayer

SpecTimed == InitTimed /\ [][ParseSubtitlesFromString]_vars

\* The size of the style stack after the first k tags: an opening tag adds
\* one, a closing tag takes one off unless the stack is empty.
RECURSIVE StackSize(_, _)
StackSize(tags, k) ==
    IF k = 0 THEN 0
    ELSE IF tags[k] \in OpeningTags THEN StackSize(tags, k - 1) + 1
    ELSE IF StackSize(tags, k - 1) = 0 THEN 0
    ELSE StackSize(tags, k - 1) - 1

\* The opening tag that the closing tag j balances: the last one before j that
\* was met with the stack at the size the closing tag leaves.
Opener(tags, j) ==
    Max({i \in 1..(j - 1) : /\ tags[i] \in OpeningTags
                            /\ StackSize(tags, i - 1) = StackSize(tags, j)})

\* C16: the text after a closing tag has the style of the text before the
\* opening tag it balances; after a closing tag met with an empty stack it
\* has the default style (fontWeight normal, fontStyle normal); the call
\* returns the cue in both cases.
ClosingTagRestoresStyle ==
    [][CallEnds =>
        \A tags \in TagLists :
            (sourceName = "clip.vtt" /\ blocks = <<TimedBlock(TaggedText(tags))>>) =>
                /\ outcome' = "returned"
                /\ Len(cues') = 1
                /\ Len(cues'[1].lines) = 1
                /\ Len(cues'[1].lines[1]) = Len(tags) + 1
                /\ cues'[1].lines[1][1].style = BuiltInDefaultStyle
                /\ \A j \in 1..Len(tags) :
                      tags[j] \in ClosingTags =>
                          cues'[1].lines[1][j + 1].style =
                              IF StackSize(tags, j - 1) = 0 THEN BuiltInDefaultStyle
                              ELSE cues'[1].lines[1][Opener(tags, j)].style]_vars

\* A cue text with <i> inside <b> has been parsed: the text after </i> is
\* bold and not italic as before <i>.
InnerTagClosed ==
    /\ pc = "parsed"
    /\ blocks = <<TimedBlock("a<b>b<i>c</i>d")>>
    /\ Len(cues) = 1 /\ Len(cues[1].lines) = 1 /\ Len(cues[1].lines[1]) = 4
    /\ cues[1].lines[1][3].style.fontStyle = "italic"
    /\ cues[1].lines[1][4].style = cues[1].lines[1][2].style
    /\ cues[1].lines[1][4].style.fontWeight = "bold"

\* The index of the first line that holds "-->", 0 when no line does.
ArrowLine(lines) == MinOrZero({i \in 1..Len(lines) : Includes(lines[i], "-->")})

\* C17: a block gives a cue exactly when one of its lines holds "-->": no
\* cue without such a line, and with one exactly one cue, whose text is that
\* of the lines after the first such line; WebVTT and SRT alike.
BlockWithArrowGivesCue ==
    [][(CallEnds /\ head = "" /\ Len(blocks) = 1) =>
        Let(Split(blocks[1], "\n"), LAMBDA lines :
        Let(ArrowLine(lines), LAMBDA arrow :
            IF arrow = 0 THEN cues' = <<>>
            ELSE /\ Len(cues') = 1
                 /\ cues'[1].text =
                        parseInlineStyledText(Join(SubSeq(lines, arrow + 1, Len(lines)), "\n"),
                                              BuiltInDefaultStyle).text))]_vars

\* C20: the start time of a cue is h*3600 + m*60 + s for a timestamp of
\* three parts, m*60 + s for two, the seconds for one, and 0 for a timestamp
\* that cannot be parsed (a part that is no number, more than three parts);
\* it is always a number and the call returns.
UnparsableStampGivesZero ==
    [][CallEnds =>
        \A t \in Stamps :
            blocks = <<StampedBlock(t.text)>> =>
                /\ outcome' = "returned"
                /\ Len(cues') = 1
                /\ cues'[1].startTime = Num(t.ms)]_vars

\* The size of the style stack after the first k tags: an opening tag
\* pushes, a closing tag pops unless the stack is empty, a tag without name
\* does neither.
RECURSIVE DepthAfter(_, _)
DepthAfter(tags, k) ==
    IF k = 0 THEN 0
    ELSE IF tags[k] \in ScanOpeningTags THEN DepthAfter(tags, k - 1) + 1
    ELSE IF tags[k] \in ScanClosingTags /\ DepthAfter(tags, k - 1) > 0
    THEN DepthAfter(tags, k - 1) - 1
    ELSE DepthAfter(tags, k - 1)

\* The scan of parseInlineStyledText after its first n tokens.
ScanAfter(text, n) ==
    TokenLoop([lines |-> << <<>> >>, currentStyle |-> BuiltInDefaultStyle, styleStack |-> <<>>],
              SubSeq(FilterNonEmpty(SplitTags(Trim(StripOverrideBlocks(ReplaceBreaks(text))))),
                     1, n),
              BuiltInDefaultStyle)

\* C27: at every point of the token scan where the style stack is empty the
\* current style is the default style (fontWeight normal, fontStyle normal):
\* after every number of tokens, and so in the text that follows a tag which
\* leaves the stack empty; for opening, closing, unknown and nameless tags.
DefaultStyleAtEmptyStack ==
    [][(CallEnds /\ sourceName = "scan.vtt") =>
        \A tags \in ScanLists :
            blocks = <<TimedBlock(TaggedText(tags))>> =>
                /\ Len(cues') = 1
                /\ Len(cues'[1].lines) = 1
                /\ Len(cues'[1].lines[1]) = Len(tags) + 1
                /\ \A k \in 0..Len(tags) :
                      DepthAfter(tags, k) = 0
                          => cues'[1].lines[1][k + 1].style = BuiltInDefaultStyle
                /\ \A n \in 0..(2 * Len(tags) + 1) :
                      Let(ScanAfter(TaggedText(tags), n), LAMBDA st :
                          /\ Len(st.styleStack) = DepthAfter(tags, n \div 2)
                          /\ st.styleStack = <<>> => st.currentStyle = BuiltInDefaultStyle)]_vars

\* A cue text with <b>, a closing tag and a second closing tag has been
\* parsed: the text after <b> is bold, the text after each closing tag has
\* the default style.
StackEmptiedTwice ==
    /\ pc = "parsed"
    /\ blocks = <<TimedBlock("a<b>b</i>c</i>d")>>
    /\ sourceName = "scan.vtt"
    /\ Len(cues) = 1 /\ Len(cues[1].lines[1]) = 4
    /\ cues[1].lines[1][2].style.fontWeight = "bold"
    /\ cues[1].lines[1][3].style = BuiltInDefaultStyle
    /\ cues[1].lines[1][4].style = BuiltInDefaultStyle

(***************************************************************************)
(* Cue texts by their line breaks, in both dialects: a text is a list of   *)
(* items, each a letter of text ("t"), a line break ("n") or a style tag   *)
(* ("o"); the ASS dialect writes them as a letter, \N and {\b1}, the       *)
(* HTML-like dialect as a letter, <br> and <b>.                            *)
(***************************************************************************)
MaxItems == 4

ItemLists == UNION {[1..n -> {"t", "n", "o"}] : n \in 1..MaxItems}

RECURSIVE ItemsText(_, _, _, _)
ItemsText(items, k, break, tag) ==
    IF k > Len(items) THEN ""
    ELSE (CASE items[k] = "t" -> Letter(k)
            [] items[k] = "n" -> break
            [] OTHER -> tag) \o ItemsText(items, k + 1, break, tag)

AssText(items) == ItemsText(items, 1, "\\N", "{\\b1}")

HtmlText(items) == ItemsText(items, 1, "<br>", "<b>")

InitLines ==
    /\ \/ /\ family = "ass"
          /\ head = PlainHead
          /\ blocks \in {<<TextRow(AssText(items))>> : items \in ItemLists}
          /\ sourceName = "clip.ass"
       \/ /\ family = "timed"
          /\ head = ""
          /\ blocks \in {<<TimedBlock(HtmlText(items))>> : items \in ItemLists}
          /\ sourceName = "clip.vtt"
    /\ content = Render(family, head, blocks)
    /\ DEFAULT_STYLE = BuiltInDefaultStyle
    /\ calls = <<>>
    /\ Idle
    /\ NoPlayer

SpecLines == InitLines /\ [][ParseSubtitlesFromString]_vars

\* The texts of the lines the items lo..hi make: a break starts a line, a
\* letter goes to the last line, a tag adds nothing.
RECURSIVE LineTexts(_, _, _, _)
LineTexts(items, k, hi, texts) ==
    IF k > hi THEN texts
    ELSE LineTexts(items, k + 1, hi,
                   CASE items[k] = "n" -> Append(texts, "")
                     [] items[k] = "t" -> [texts EXCEPT ![Len(texts)] = @ \o Letter(k)]
                     [] OTHER -> texts)

\* The line list of the ASS tokenizer: every item counts.
AssLines(items) == LineTexts(items, 1, Len(items), <<"">>)

\* The line list of the HTML-like tokenizer: the text is trimmed first, which
\* takes the breaks before the first and after the last letter or tag.
HtmlLines(items) ==
    Let({k \in 1..Len(items) : items[k] # "n"}, LAMBDA solid :
        IF solid = {} THEN <<"">>
        ELSE LineTexts(items, Min(solid), Max(solid), <<"">>))

\* The elements of a sequence at the indices of a set, in their order.
AtIndices(seq, kept) ==
    [j \in 1..Cardinality(kept) |->
        seq[CHOOSE i \in kept : Cardinality({x \in kept : x <= i}) = j]]

\* The lines the pruning rule keeps: the ones with text, and the empty
\* ones that are neither the first nor the last of the list.
PrunedByIndex(texts) ==
    AtIndices(texts, {i \in 1..Len(texts) : texts[i] # "" \/ (i > 1 /\ i < Len(texts))})

TextsOfLines(lines) == [i \in 1..Len(lines) |-> LineText(lines[i])]

\* C25: of the tokenizer's line list the pruning removes an empty line exactly
\* when it is the first or the last of the list; it keeps every empty line
\* in between and every line with text, in their order; in both dialects.
EmptyLinesPrunedAtEnds ==
    [][CallEnds =>
        \A items \in ItemLists :
            /\ (family = "ass" /\ blocks = <<TextRow(AssText(items))>>) =>
                   /\ Len(cues') = 1
                   /\ TextsOfLines(cues'[1].lines) = PrunedByIndex(AssLines(items))
            /\ (family = "timed" /\ blocks = <<TimedBlock(HtmlText(items))>>) =>
                   /\ Len(cues') = 1
                   /\ TextsOfLines(cues'[1].lines) = PrunedByIndex(HtmlLines(items))]_vars

\* A text with a break before its letter and two breaks after it has been
\* parsed: of the four lines the first and the last are removed, the empty
\* line in between is kept.
InteriorBlankLineKept ==
    /\ pc = "parsed"
    /\ blocks = <<TextRow("\\Nb\\N\\N")>>
    /\ Len(cues) = 1
    /\ TextsOfLines(cues[1].lines) = <<"b", "">>

SectionStep(st, line) ==
    Let(Trim(line), LAMBDA trimmedLine :
        IF StartsWith(trimmedLine, "[") /\ EndsWith(trimmedLine, "]")
        THEN Let(ToLowerCase(SubSeq(trimmedLine, 2, Len(trimmedLine) - 1)), LAMBDA name :
                 [section |-> name,
                  events |-> IF name = "events" THEN <<>> ELSE st.events])
        ELSE IF st.section = "events" /\ trimmedLine # ""
        THEN [st EXCEPT !.events = Append(st.events, trimmedLine)]
        ELSE st)

RECURSIVE SectionLoop(_, _)
SectionLoop(st, lines) ==
    IF Len(lines) = 0 THEN st ELSE SectionLoop(SectionStep(st, Head(lines)), Tail(lines))

\* timeStr.match(/(\d+):(\d{2}):(\d{2})\.(\d{2})/), without trim
parseASSTimeOfEvent(timeStr) ==
    Let(MinOrZero(ASSTimeColons(timeStr)), LAMBDA q :
        IF q = 0 THEN Num(0)
        ELSE Num((DigitsValue(SubSeq(timeStr, DigitRunStart(timeStr, q - 1), q - 1), 0) * 3600
                  + DigitsValue(SubSeq(timeStr, q + 1, q + 2), 0) * 60
                  + DigitsValue(SubSeq(timeStr, q + 4, q + 5), 0)) * 1000
                 + DigitsValue(SubSeq(timeStr, q + 7, q + 8), 0) * 10))

\* text.replace(/\{[^}]*\}/g, ''): the texts between the blocks.
WithoutBlocks(text) ==
    Let(SplitOverrideBlocks(text), LAMBDA tokens :
        Join([i \in 1..((Len(tokens) + 1) \div 2) |-> tokens[2 * i - 1]], ""))

processASSText(text) ==
    Trim(ReplaceAll(ReplaceAll(ReplaceAll(WithoutBlocks(text), "\\N", "\n"), "\\n", "\n"),
                    "\\h", " "))

\* i < values.length - 1 ? values[i].trim() : values.slice(i).join(',').trim()
EventValue(values, i) ==
    IF i < Len(values) THEN Trim(values[i]) ELSE Trim(Join(SubSeq(values, i, Len(values)), ","))

\* The value of the last field of that name, Undefined without one: the loop
\* over the fields assigns in turn.
LastFieldValue(values, fields, name) ==
    Let({i \in 1..Len(fields) : ToLowerCase(fields[i]) = name}, LAMBDA found :
        IF found = {} THEN Undefined ELSE EventValue(values, Max(found)))

\* parseEventLine: the event as <<event>>, or <<>> for null.
parseEventLine(eventLine, formatLine) ==
    Let(Split(StrFrom(eventLine, 10), ","), LAMBDA values :
    Let(TrimAll(Split(formatLine, ",")), LAMBDA fields :
        IF Len(values) < Len(fields) THEN <<>>
        ELSE Let(LastFieldValue(values, fields, "start"), LAMBDA start :
             Let(LastFieldValue(values, fields, "end"), LAMBDA end :
             Let(LastFieldValue(values, fields, "text"), LAMBDA text :
                 IF start # Undefined /\ end # Undefined /\ text # Undefined
                        /\ processASSText(text) # ""
                 THEN <<[startTime |-> parseASSTimeOfEvent(start),
                         endTime |-> parseASSTimeOfEvent(end),
                         text |-> processASSText(text)]>>
                 ELSE <<>>)))))

\* One iteration of parseEvents' loop; st is [formatLine, events].
ParseEventsStep(st, line) ==
    IF StartsWith(line, "Format:") THEN [st EXCEPT !.formatLine = Trim(StrFrom(line, 8))]
    ELSE IF StartsWith(line, "Dialogue:")
    THEN [st EXCEPT !.events = st.events \o parseEventLine(line, st.formatLine)]
    ELSE st

RECURSIVE ParseEventsLoop(_, _)
ParseEventsLoop(st, lines) ==
    IF Len(lines) = 0 THEN st ELSE ParseEventsLoop(ParseEventsStep(st, Head(lines)), Tail(lines))

\* parseASS(assContent): the events of the [Events] section, sorted by start.
parseASS(assContent) ==
    SortEvents(ParseEventsLoop([formatLine |-> "", events |-> <<>>],
                               SectionLoop([section |-> "", events |-> <<>>],
                                           Split(assContent, "\n")).events).events)

\* The times and the text of every cue.
TimedTexts(cs) ==
    [i \in 1..Len(cs) |->
        [startTime |-> cs[i].startTime, endTime |-> cs[i].endTime, text |-> cs[i].text]]

\* C28: for every ASS document parseSubtitlesFromString and parseASS return
\* as many cues, in the same order, with the same times and texts.
EntryPointsAgree ==
    [][(CallEnds /\ format' = "ass") => TimedTexts(cues') = parseASS(content)]_vars

(***************************************************************************)
(* The player whose subtitles prop changes: the effect on [subtitles] has  *)
(* no cleanup, so every change starts a run of loadSubtitles next to the   *)
(* runs still awaiting, and each run ends with its own                     *)
(* setParsedSubtitles.  The user picks a track in the settings menu or     *)
(* toggles the subtitles.                                                  *)
(***************************************************************************)
MaxStale == 1

Listed(src, text, dflt) == [src |-> src, fails |-> "no", text |-> text, default |-> dflt]

PropTracks ==
    {Listed("https://cdn/en.vtt", "WEBVTT\n\n00:01.000 --> 00:02.000\nHello", FALSE),
     Listed("https://cdn/de.srt", "1\n00:00:03,000 --> 00:00:05,000\n<i>Hallo</i>", TRUE)}

\* The lists the player is rendered with: a track is listed once, its option's
\* key is subtitle.src + subtitle.label.
PropLists ==
    {list \in UNION {[1..n -> PropTracks] : n \in 0..MaxTracks} :
        \A i, k \in 1..Len(list) : list[i] = list[k] => i = k}

\* A run of loadSubtitles: the subtitles its closure holds, its loop index
\* and its local newParsedSubtitles.
Run(list, i, table) == [subtitles |-> list, trackIndex |-> i, newParsedSubtitles |-> table]

\* The player is mounted with its tracks; the first run has not started.
InitProp ==
    /\ subtitles \in PropLists
    /\ trackIndex = 0
    /\ newParsedSubtitles = <<>>
    /\ parsedSubtitles = <<>>
    /\ loader = "idle"
    /\ isPlaying = FALSE
    /\ error = Null
    /\ staleRuns = <<>>
    /\ selectedSubtitle = getInitialSubtitleIndex(subtitles)
    /\ family = "none"
    /\ head = ""
    /\ blocks = <<>>
    /\ content = ""
    /\ sourceName = ""
    /\ DEFAULT_STYLE = BuiltInDefaultStyle
    /\ calls = <<>>
    /\ Idle

\* The parent renders the player with other tracks: the effect on [subtitles]
\* runs again and, when there are tracks, starts loadSubtitles(); the run
\* that was awaiting goes on.
SubtitlesChange ==
    /\ \E list \in PropLists \ {subtitles} :
          /\ subtitles' = list
          /\ IF Len(list) > 0
             THEN loader' = "loading" /\ trackIndex' = 0 /\ newParsedSubtitles' = <<>>
             ELSE loader' = "idle" /\ UNCHANGED <<trackIndex, newParsedSubtitles>>
    /\ IF loader = "loading"
       THEN /\ Len(staleRuns) < MaxStale
            /\ staleRuns' = Append(staleRuns, Run(subtitles, trackIndex, newParsedSubtitles))
       ELSE UNCHANGED staleRuns
    /\ UNCHANGED <<parsedSubtitles, isPlaying, error, selectedSubtitle, DEFAULT_STYLE>>
    /\ UNCHANGED parserVars

\* One turn of the loop of an earlier run.
StaleLoadTrack ==
    /\ \E n \in 1..Len(staleRuns) :
          /\ staleRuns[n].trackIndex < Len(staleRuns[n].subtitles)
          /\ \E r \in {parseSubtitles(staleRuns[n].subtitles[staleRuns[n].trackIndex + 1],
                                      DEFAULT_STYLE)} :
                staleRuns' = [staleRuns EXCEPT ![n] =
                    Run(@.subtitles, @.trackIndex + 1, Append(@.newParsedSubtitles, r.cues))]
          /\ DEFAULT_STYLE' = DefaultStyleAfter(
                 staleRuns[n].subtitles[staleRuns[n].trackIndex + 1].text, DEFAULT_STYLE)
    /\ UNCHANGED <<subtitles, trackIndex, newParsedSubtitles, parsedSubtitles, loader,
                   isPlaying, error, selectedSubtitle>>
    /\ UNCHANGED parserVars

\* An earlier run after its loop: setParsedSubtitles(newParsedSubtitles)
StaleSetParsedSubtitles ==
    /\ \E n \in 1..Len(staleRuns) :
          /\ staleRuns[n].trackIndex = Len(staleRuns[n].subtitles)
          /\ parsedSubtitles' = staleRuns[n].newParsedSubtitles
          /\ staleRuns' = [k \in 1..(Len(staleRuns) - 1) |->
                               IF k < n THEN staleRuns[k] ELSE staleRuns[k + 1]]
    /\ UNCHANGED <<subtitles, trackIndex, newParsedSubtitles, loader,
                   isPlaying, error, selectedSubtitle, DEFAULT_STYLE>>
    /\ UNCHANGED parserVars

\* toggleSubtitles
ToggleSubtitles ==
    /\ selectedSubtitle' = IF selectedSubtitle = NoSubtitle
                           THEN (IF Len(subtitles) > 0 THEN 0 ELSE NoSubtitle)
                           ELSE NoSubtitle
    /\ selectedSubtitle' # selectedSubtitle
    /\ UNCHANGED <<subtitles, trackIndex, newParsedSubtitles, parsedSubtitles, loader,
                   isPlaying, error, staleRuns, DEFAULT_STYLE>>
    /\ UNCHANGED parserVars

\* The select of the settings menu: an option per track of subtitles, and -1.
SelectSubtitle ==
    /\ \E value \in {NoSubtitle} \cup (0..(Len(subtitles) - 1)) :
          /\ value # selectedSubtitle
          /\ selectedSubtitle' = value
    /\ UNCHANGED <<subtitles, trackIndex, newParsedSubtitles, parsedSubtitles, loader,
                   isPlaying, error, staleRuns, DEFAULT_STYLE>>
    /\ UNCHANGED parserVars

NextProp ==
    \/ LoadSubtitles
    \/ LoadTrack
    \/ SetParsedSubtitles
    \/ SubtitlesChange
    \/ StaleLoadTrack
    \/ StaleSetParsedSubtitles
    \/ ToggleSubtitles
    \/ SelectSubtitle

SpecProp == InitProp /\ [][NextProp]_vars

\* getCurrentSubtitleCueForTime: null when no track is selected or
\* parsedSubtitles has no entry at the selected index.
getCurrentSubtitleCueForTime(selected, parsed, time) ==
    IF selected = NoSubtitle \/ selected + 1 \notin DOMAIN parsed THEN Null
    ELSE getCurrentSubtitleCue(parsed[selected + 1], time)

\* The times the player is at.
PlayerTimes == {Num(0), Num(1500), Num(4000)}

\* The table a run over a list ends with.
TableOf(list) == [k \in 1..Len(list) |-> CuesOfText(list[k])]

\* C29: when the run started for the present subtitles has ended and no
\* earlier run is awaiting, parsedSubtitles is the table built from the
\* present subtitles: an earlier run that ends later has not replaced it.
LatestTableStored ==
    (loader = "done" /\ staleRuns = <<>>) => parsedSubtitles = TableOf(subtitles)

\* C30: at every time, a cue is shown only when selectedSubtitle is an index
\* of the present subtitles and the cue is one of the cues parsed from that
\* track; nothing is shown while selectedSubtitle is null.
ShownCueOfListedTrack ==
    \A time \in PlayerTimes :
        Let(getCurrentSubtitleCueForTime(selectedSubtitle, parsedSubtitles, time), LAMBDA cue :
            /\ selectedSubtitle = NoSubtitle => cue = Null
            /\ cue # Null =>
                  /\ selectedSubtitle \in 0..(Len(subtitles) - 1)
                  /\ \E k \in 1..Len(CuesOfText(subtitles[selectedSubtitle + 1])) :
                        CuesOfText(subtitles[selectedSubtitle + 1])[k] = cue)
=============================================================================
